---- MODULE Spec2Model ----
(***************************************************************************)
(* Model of the wallace content-addressable object store: the Volume       *)
(* (wallace_volume/src/volume.rs), its Hash (hash.rs) and the system calls *)
(* it issues through wallace_fsutil.  Callers hold their own Volume handle *)
(* on one volume directory and run insert_from_path, insert_from_reader,   *)
(* insert_from_file and get, one system call per step.                     *)
(***************************************************************************)
EXTENDS Integers, Sequences, FiniteSets, TLC

(* ------------------------------ bounds --------------------------------- *)

\* Number of callers, each with its own Volume handle on the same directory.
NumCallers == 2

\* Total number of calls the callers start in one behaviour.
MaxOps == 3

\* Longest byte sequence handed to insert_from_reader.
MaxLen == 2

\* Number of entries that are not regular files which a corrupt volume holds.
MaxCorrupt == 1

\* The number of readdir calls that fail during one union_all.
MaxFaults == 1

(* --------------------------- program constants ------------------------- *)

\* open_mode of the temporary file (0o600).
TmpfileMode == 384

\* Permissions::from_mode(0o400).
ReadonlyMode == 256

\* mknod(.., S_IFIFO | 0o644, ..): the mode of the test data's files.
DefaultMode == 420

\* create_dir: mkdir(path, 0o777) under the umask 0o022 (0o755).
DirMode == 493

(* ------------------------------- bytes --------------------------------- *)

Callers == 1 .. NumCallers

\* The byte values objects are made of ("h").
Bytes == {104}

RECURSIVE SeqsUpTo(_)
SeqsUpTo(n) ==
    IF n = 0 THEN {<<>>}
    ELSE LET shorter == SeqsUpTo(n - 1)
         IN  shorter \cup {Append(s, b) : s \in {t \in shorter : Len(t) = n - 1}, b \in Bytes}

\* The byte sequences of the model.
Contents == SeqsUpTo(MaxLen)

\* SHA-256 as libsodium computes it, on the byte sequences of the model.
Sha256(bytes) ==
    CASE bytes = <<>> ->
           <<227, 176, 196, 66, 152, 252, 28, 20, 154, 251, 244, 200, 153, 111, 185, 36, 39, 174, 65, 228, 100, 155, 147, 76, 164, 149, 153, 27, 120, 82, 184, 85>>
      [] bytes = <<104>> ->
           <<170, 169, 64, 38, 100, 241, 164, 31, 64, 235, 188, 82, 201, 153, 62, 182, 106, 235, 54, 102, 2, 149, 143, 223, 170, 40, 59, 113, 230, 77, 177, 35>>
      [] bytes = <<104, 104>> ->
           <<114, 178, 137, 236, 120, 224, 169, 40, 197, 101, 72, 10, 67, 84, 83, 227, 10, 203, 146, 237, 219, 59, 120, 255, 22, 139, 40, 115, 124, 246, 168, 73>>
      [] bytes = <<104, 104, 104>> ->
           <<36, 209, 102, 205, 108, 139, 130, 108, 119, 144, 64, 180, 157, 91, 103, 8, 214, 73, 178, 54, 85, 142, 135, 68, 51, 157, 254, 230, 175, 225, 25, 153>>
      [] bytes = <<104, 104, 104, 104>> ->
           <<146, 231, 221, 115, 6, 219, 221, 65, 44, 141, 107, 98, 107, 124, 128, 143, 12, 63, 198, 146, 201, 41, 122, 237, 240, 71, 174, 145, 139, 17, 190, 88>>
      [] bytes = <<104, 104, 104, 104, 104>> ->
           <<58, 253, 201, 107, 53, 230, 10, 108, 61, 152, 252, 6, 202, 134, 71, 173, 90, 16, 108, 134, 37, 3, 203, 100, 249, 130, 210, 96, 146, 140, 114, 133>>
      [] bytes = <<104, 104, 104, 104, 104, 104>> ->
           <<137, 16, 44, 81, 22, 195, 125, 170, 85, 216, 99, 66, 206, 44, 71, 211, 91, 27, 194, 237, 64, 117, 9, 115, 45, 148, 14, 162, 144, 27, 239, 188>>
      [] bytes = <<104, 104, 104, 104, 104, 104, 104>> ->
           <<88, 159, 111, 236, 168, 177, 107, 166, 55, 252, 138, 142, 163, 94, 234, 92, 34, 75, 39, 224, 166, 95, 48, 110, 25, 222, 20, 203, 3, 152, 150, 90>>
      [] bytes = <<104, 104, 104, 104, 104, 104, 104, 104>> ->
           <<28, 108, 186, 34, 6, 47, 115, 8, 108, 50, 52, 133, 177, 159, 216, 89, 224, 19, 107, 8, 137, 203, 59, 186, 239, 6, 31, 15, 133, 17, 30, 223>>
      [] bytes = <<104, 104, 104, 104, 104, 104, 104, 104, 104>> ->
           <<247, 121, 89, 169, 154, 78, 236, 122, 152, 55, 253, 4, 252, 38, 136, 82, 87, 48, 162, 209, 247, 16, 157, 120, 186, 185, 27, 170, 208, 72, 216, 140>>
      [] bytes = <<104, 104, 104, 104, 104, 104, 104, 104, 104, 104>> ->
           <<58, 10, 4, 230, 31, 32, 251, 57, 247, 97, 152, 245, 157, 190, 62, 58, 33, 115, 16, 124, 31, 122, 218, 160, 32, 178, 229, 106, 141, 84, 152, 119>>

(* ------------------------------- Hash ---------------------------------- *)

\* write!(f, "{:02x}", byte): one lowercase hexadecimal digit, as its ASCII code.
HexDigit(n) == IF n < 10 THEN 48 + n ELSE 87 + n

RECURSIVE FormatBytes(_)
FormatBytes(bytes) ==
    IF bytes = <<>> THEN <<>>
    ELSE <<HexDigit(Head(bytes) \div 16), HexDigit(Head(bytes) % 16)>>
             \o FormatBytes(Tail(bytes))

\* impl Display for Hash: 64 lowercase hexadecimal digits.
FormatHash(hash) == FormatBytes(hash)

\* format!("objects/{}", hash): the name of the entry inside objects/.
ObjectName(hash) == FormatHash(hash)

\* The hashes callers ask for.
Hashes == {Sha256(b) : b \in Contents}

(* ---------------------------- file system ------------------------------ *)

VARIABLES
    inodes,               \* inode number -> [kind, data, mode, uid, dev, target]
    paths,                \* the callers' source files: path -> inode number
    objects,              \* the volume's objects directory: name -> inode number
    pc,                   \* caller -> the step it is at
    op,                   \* caller -> the call it runs and the call's locals
    result,               \* caller -> what its last call returned
    started,              \* number of calls started so far
    volumes               \* caller -> the Volume handles it has opened

vars == <<inodes, paths, objects, pc, op, result, started, volumes>>

\* The user all callers run as, and the owner of files that are not theirs.
CallerUid == "caller"
OtherUid == "other"

\* The file system the volume lives on, and another one (the one of /dev/null).
VolumeDev == "volume"
OtherDev == "devtmpfs"

\* tmpfile: the inode was made by an open with O_TMPFILE, so that it can be
\* linked although it has no name.
Inode(kind, data, mode, uid, dev, target) ==
    [kind |-> kind, data |-> data, mode |-> mode, uid |-> uid, dev |-> dev,
     target |-> target, tmpfile |-> FALSE]

\* The permission bit `bit` (a power of two) of a mode.
HasBit(mode, bit) == (mode \div bit) % 2 = 1

\* Whether the callers may read (write) the file: by the owner bits for their
\* own files, by the other bits for the rest.
MayRead(inode) ==
    IF inode.uid = CallerUid THEN HasBit(inode.mode, 256) ELSE HasBit(inode.mode, 4)

MayWrite(inode) ==
    IF inode.uid = CallerUid THEN HasBit(inode.mode, 128) ELSE HasBit(inode.mode, 2)

\* Whether the callers may search the directory (look a name up in it).
MaySearch(inode) ==
    IF inode.uid = CallerUid THEN HasBit(inode.mode, 64) ELSE HasBit(inode.mode, 1)

\* An open file: the inode, the file offset, whether it was opened for reading,
\* the O_NONBLOCK file status flag and the descriptor flags (FD_CLOEXEC = 1).
\* The offset belongs to the open file description, which the Files made by
\* File::try_clone share: `ofd` is 0 for a File with a description of its own,
\* as every open makes it, and the number of the description for clones.
File(ino, offset, readable, nonblock, fdflags) ==
    [ino |-> ino, offset |-> offset, readable |-> readable,
     nonblock |-> nonblock, fdflags |-> fdflags, ofd |-> 0]

NoFile == File(0, 0, FALSE, FALSE, 0)

\* The inode number a newly created file gets: the smallest one not in use.
FreshIno(inos) ==
    CHOOSE n \in 1 .. (Cardinality(DOMAIN inos) + 1) :
        /\ n \notin DOMAIN inos
        /\ \A m \in 1 .. (n - 1) : m \in DOMAIN inos

\* Number of directory entries (hard links) of an inode.
LinkCount(ino, inos, pths, objs) ==
    Cardinality({p \in DOMAIN pths : pths[p] = ino})
        + Cardinality({n \in DOMAIN objs : objs[n] = ino})
        + Cardinality({e \in UNION {{<<d, n>> : n \in DOMAIN inos[d].data} :
                                       d \in {x \in DOMAIN inos : inos[x].kind = "dir"}} :
                          inos[e[1]].data[e[2]] = ino})

\* Dropping a File closes it: an inode without a name goes away with its last
\* descriptor (each call holds one descriptor, in op[c].file).
CloseFile(inos, file, pths, objs) ==
    IF /\ file.ino \in DOMAIN inos
       /\ LinkCount(file.ino, inos, pths, objs) = 0
       /\ Cardinality({c \in Callers : op[c].file.ino = file.ino}) <= 1
    THEN [n \in DOMAIN inos \ {file.ino} |-> inos[n]]
    ELSE inos

\* A function with one more (or one changed) point.
Extend(f, x, y) == [z \in DOMAIN f \cup {x} |-> IF z = x THEN y ELSE f[z]]

(* ---------------------------- system calls ----------------------------- *)

\* The flags of an open that the outcome depends on.
OpenFlags(nofollow, nonblock) == [nofollow |-> nofollow, nonblock |-> nonblock]

\* Path resolution (path_resolution(7)) of the components `names`, starting in
\* the directory with the entries `dir`: [err, ino].  A symbolic link in the
\* middle of the path is always followed, one at its end unless O_NOFOLLOW is
\* given; the target of a link is a path from `root`.  `hops` is the number of
\* links that may still be followed (40 at the start), ELOOP beyond.  A
\* directory on the path that the callers may not search is EACCES; `dir` and
\* `root` themselves are checked by the one who names them.
RECURSIVE resolve(_, _, _, _, _, _)
resolve(root, inos, dir, names, nofollow, hops) ==
    LET name == Head(names)
        rest == Tail(names)
    IN  IF name \notin DOMAIN dir THEN [err |-> "ENOENT", ino |-> 0]
        ELSE LET n == dir[name]
                 k == inos[n].kind
             IN  CASE k = "lnk" /\ (rest # <<>> \/ ~nofollow) ->
                          IF hops = 0 THEN [err |-> "ELOOP", ino |-> 0]
                          ELSE resolve(root, inos, root, inos[n].target \o rest,
                                       nofollow, hops - 1)
                   [] k = "dir" /\ rest # <<>> ->
                          IF ~MaySearch(inos[n]) THEN [err |-> "EACCES", ino |-> 0]
                          ELSE resolve(root, inos, inos[n].data, rest, nofollow, hops)
                   [] k \notin {"lnk", "dir"} /\ rest # <<>> ->
                          [err |-> "ENOTDIR", ino |-> 0]
                   [] OTHER -> [err |-> "", ino |-> n]

\* open(2) of the path `names` relative to a directory, read-only: [err, ino].
\* With O_NOFOLLOW a symbolic link at the end of the path is ELOOP.  The error
\* "EWOULDBLOCK_WAIT" stands for an open that does not return: a FIFO without
\* a writer, opened without O_NONBLOCK.
OpenOutcome(dir, inos, names, flags) ==
    LET found == resolve(paths, inos, dir, names, flags.nofollow, 40)
        n == found.ino
        k == inos[n].kind
    IN  CASE found.err # "" -> found
          [] found.err = "" /\ k = "lnk" -> [err |-> "ELOOP", ino |-> 0]
          [] found.err = "" /\ k # "lnk" /\ ~MayRead(inos[n]) -> [err |-> "EACCES", ino |-> 0]
          [] found.err = "" /\ k = "sock" /\ MayRead(inos[n]) -> [err |-> "ENXIO", ino |-> 0]
          [] found.err = "" /\ k = "fifo" /\ MayRead(inos[n]) /\ ~flags.nonblock ->
                 [err |-> "EWOULDBLOCK_WAIT", ino |-> 0]
          [] OTHER -> [err |-> "", ino |-> n]

\* fsutil::openat(dir, path, flags, mode)
openat(dir, inos, names, flags) == OpenOutcome(dir, inos, names, flags)

\* Variant: the check that the file is regular is left out.
is_file_unchecked(inos, file) == TRUE

\* file.metadata()?.is_file()
is_file(inos, file) == inos[file.ino].kind = "reg"

\* Variant: the file is not rewound before it is hashed.
seek_start_skipped(inos, file) == [err |-> "", file |-> file]

\* file.seek(SeekFrom::Start(0)): [err, file].
seek_start(inos, file) ==
    IF inos[file.ino].kind \in {"fifo", "sock"}
    THEN [err |-> "ESPIPE", file |-> file]
    ELSE [err |-> "", file |-> [file EXCEPT !.offset = 0]]

\* One read(2) into the buffer of io::copy, which is larger than the files
\* here: the bytes from the file offset to the end of the file, and the File
\* after them: [err, bytes, file].
read(inos, file) ==
    LET inode == inos[file.ino]
    IN  CASE ~file.readable -> [err |-> "EBADF", bytes |-> <<>>, file |-> file]
          [] file.readable /\ inode.kind = "dir" ->
                 [err |-> "EISDIR", bytes |-> <<>>, file |-> file]
          [] OTHER ->
                 [err |-> "",
                  bytes |-> SubSeq(inode.data, file.offset + 1, Len(inode.data)),
                  file |-> [file EXCEPT !.offset =
                               IF @ < Len(inode.data) THEN Len(inode.data) ELSE @]]

\* Variant: a single read of one byte instead of a copy to the end of the file.
from_reader_single_read(inos, file, hashed) ==
    LET r == read(inos, file)
    IN  [err |-> r.err, done |-> TRUE, file |-> file,
         hashed |-> IF r.bytes = <<>> THEN hashed ELSE Append(hashed, Head(r.bytes))]

\* Hash::from_reader(&mut file): io::copy(r, &mut sha256), one turn of its
\* loop: a read that returns bytes feeds them to the digest (`hashed` are the
\* bytes fed so far), a read that returns none ends the copy, and the digest is
\* then finalized: [err, done, file, hashed].
from_reader(inos, file, hashed) ==
    LET r == read(inos, file)
    IN  CASE r.err # "" -> [err |-> r.err, done |-> TRUE, file |-> file, hashed |-> hashed]
          [] r.err = "" /\ r.bytes = <<>> ->
                 [err |-> "", done |-> TRUE, file |-> file, hashed |-> hashed]
          [] OTHER ->
                 [err |-> "", done |-> FALSE, file |-> r.file, hashed |-> hashed \o r.bytes]

\* Variant: an existing entry is replaced, as rename does, instead of reported.
linkat_overwriting(dir, inos, file, name, protected) ==
    IF inos[file.ino].dev # VolumeDev THEN "EXDEV" ELSE ""

\* fsutil::linkat(AT_FDCWD, "/proc/self/fd/N", directory, "objects/<hash>",
\* AT_SYMLINK_FOLLOW), `dir` being the inode of the objects directory: the
\* error, or "" when the entry was created.  The directory must be searched
\* to look the name up (EACCES) and written to add it (EACCES).  Under
\* fs.protected_hardlinks a file of another owner is linked only if it is a
\* regular file without the set-user-id bit, without the set-group-id bit
\* together with group execute, and open to the caller for reading and
\* writing (EPERM).  A file that has lost its last name cannot be linked
\* again (ENOENT), unless it was made with O_TMPFILE.
linkat(dir, inos, file, name, protected) ==
    LET inode == inos[file.ino]
        objs == dir.data
        safe == /\ inode.kind = "reg"
                /\ ~HasBit(inode.mode, 2048)
                /\ ~(HasBit(inode.mode, 1024) /\ HasBit(inode.mode, 8))
                /\ MayRead(inode)
                /\ MayWrite(inode)
        refused == protected /\ inode.uid # CallerUid /\ ~safe
    IN  IF ~MaySearch(dir) THEN "EACCES"
        ELSE IF name \in DOMAIN objs THEN "EEXIST"
        ELSE IF inode.dev # VolumeDev THEN "EXDEV"
        ELSE IF refused THEN "EPERM"
        ELSE IF ~MayWrite(dir) THEN "EACCES"
        ELSE IF inode.kind = "dir" THEN "EPERM"
        ELSE IF ~inode.tmpfile /\ LinkCount(file.ino, inos, paths, objs) = 0
        THEN "ENOENT"
        ELSE ""

\* Variant: the new entry replaces the directory's entries.
link_entry_replacing(objs, name, ino) == [n \in {name} |-> ino]

\* The objects directory with the entry `name` added for the inode.
link_entry(objs, name, ino) == Extend(objs, name, ino)

\* Variant: every error of the link is taken for AlreadyExists.
already_exists_any_error(linkat_result) == TRUE

\* Err(err) if err.kind() == AlreadyExists => ()
already_exists(linkat_result) == linkat_result = "EEXIST"

\* file.set_permissions(Permissions::from_mode(0o400)): the error, or "".
set_permissions(inos, file) ==
    IF inos[file.ino].uid # CallerUid THEN "EPERM" ELSE ""

\* Variant: the permissions are left as they were.
readonly_skipped(inos, call) == inos

\* Variant: the file is made read-only only when the link was newly created.
readonly_new_only(inos, call) ==
    IF call.linkat_result = "EEXIST" THEN inos
    ELSE [inos EXCEPT ![call.file.ino].mode = ReadonlyMode]

\* let readonly = Permissions::from_mode(0o400); file.set_permissions(readonly):
\* the inodes after the chmod of the call's file.
readonly(inos, call) == [inos EXCEPT ![call.file.ino].mode = ReadonlyMode]

\* Variant: NotFound is not translated.
not_found_not_translated(err) == FALSE

\* Err(err) if err.kind() == NotFound => return Ok(None)
not_found(err) == err = "ENOENT"

(* ------------------------------- callers ------------------------------- *)

\* A call and its locals: the method, its argument (path, reader bytes, hash or
\* given File), the File it holds, the bytes it has fed to the digest, the hash
\* it computed, and linkat_result ("none" before the link step, "" for Ok(())).
Call(name, path, bytes, hash, given, file) ==
    [name |-> name, path |-> path, bytes |-> bytes, hash |-> hash,
     given |-> given, file |-> file, hashed |-> <<>>, linkat_result |-> "none"]

NoCall == Call("none", "", <<>>, <<>>, NoFile, NoFile)

\* What a call returned: Ok(hash), Err(err), Ok(None) or Ok(Some((data, size))).
Result(kind, hash, err, data, size) ==
    [kind |-> kind, hash |-> hash, err |-> err, data |-> data, size |-> size]

NoResult == Result("none", <<>>, "", <<>>, 0)
Ok(hash) == Result("Ok", hash, "", <<>>, 0)
Err(err) == Result("Err", <<>>, err, <<>>, 0)
OkNone == Result("None", <<>>, "", <<>>, 0)
OkSome(data, size) == Result("Some", <<>>, "", data, size)

\* The empty directory: Volume::create leaves objects/ without entries.
EmptyDir == [n \in {} |-> 0]

\* A new, empty directory.
NewDir == Inode("dir", EmptyDir, DirMode, CallerUid, VolumeDev, <<>>)

\* The files of TestData::new, made under the umask 0o022: regular1 and
\* regular2 (fs::write: 0o644), character1 (/dev/null: 0o666, not the callers',
\* on another file system), directory1, fifo1, socket1 and symlink1 (0o777),
\* which points to /etc/passwd; and /etc/passwd itself, a regular file that
\* belongs to another user, the temporary directory being on its file system.
TestInodes(contents1, contents2) ==
    <<Inode("reg", contents1, DefaultMode, CallerUid, VolumeDev, <<>>),
      Inode("reg", contents2, DefaultMode, CallerUid, VolumeDev, <<>>),
      Inode("chr", <<>>, 438, OtherUid, OtherDev, <<>>),
      Inode("dir", EmptyDir, DirMode, CallerUid, VolumeDev, <<>>),
      Inode("fifo", <<>>, DefaultMode, CallerUid, VolumeDev, <<>>),
      Inode("sock", <<>>, DefaultMode, CallerUid, VolumeDev, <<>>),
      Inode("lnk", <<>>, 511, CallerUid, VolumeDev, <<"/etc/passwd">>),
      Inode("reg", <<104>>, DefaultMode, OtherUid, VolumeDev, <<>>)>>

\* The paths of TestData::new, by the names of its fields.
TestPaths ==
    [p \in {"regular1", "regular2", "character1", "directory1", "fifo1",
            "socket1", "symlink1", "/etc/passwd"} |->
        CASE p = "regular1" -> 1
          [] p = "regular2" -> 2
          [] p = "character1" -> 3
          [] p = "directory1" -> 4
          [] p = "fifo1" -> 5
          [] p = "socket1" -> 6
          [] p = "symlink1" -> 7
          [] p = "/etc/passwd" -> 8]

Init ==
    /\ inodes = TestInodes(<<104>>, <<104, 104>>)
    /\ paths = TestPaths
    /\ objects = EmptyDir
    /\ pc = [c \in Callers |-> "idle"]
    /\ op = [c \in Callers |-> NoCall]
    /\ result = [c \in Callers |-> NoResult]
    /\ started = 0
    /\ volumes = [c \in Callers |-> <<>>]

\* A caller can start a call when it runs none.
CanCall(c) == pc[c] \in {"idle", "done"} /\ started < MaxOps

Start(c, call, at) ==
    /\ pc' = [pc EXCEPT ![c] = at]
    /\ op' = [op EXCEPT ![c] = call]
    /\ result' = [result EXCEPT ![c] = NoResult]
    /\ started' = started + 1
    /\ UNCHANGED <<inodes, paths, objects, volumes>>

\* The call of c returns res with the locals `call`; its File is dropped.
Return(c, res, call, inos, objs) ==
    /\ pc' = [pc EXCEPT ![c] = "done"]
    /\ result' = [result EXCEPT ![c] = res]
    /\ op' = [op EXCEPT ![c] = [call EXCEPT !.file = NoFile]]
    /\ inodes' = CloseFile(inos, call.file, paths, objs)
    /\ objects' = objs

\* The call of c goes on at step `at` with the locals `call`.  The offset its
\* File is at is the offset of every File that shares the description.
Goto(c, at, call) ==
    /\ pc' = [pc EXCEPT ![c] = at]
    /\ op' = [d \in Callers |->
                 CASE d = c -> call
                   [] d # c /\ call.file.ofd # 0 /\ op[d].file.ofd = call.file.ofd ->
                          [op[d] EXCEPT !.file.offset = call.file.offset]
                   [] OTHER -> op[d]]
    /\ UNCHANGED result

\* The Files a caller can hand to insert_from_file: an open file of any kind
\* that can be opened (its own regular file, the one of another user, a
\* directory, a device, a FIFO), at any offset from the start to the end of
\* the file, opened for reading or for writing only.  Each has a description
\* of its own.
GivenFiles ==
    {File(paths[p], offset, readable, FALSE, 0) :
        p \in {"regular1", "/etc/passwd", "directory1", "character1", "fifo1"},
        offset \in 0 .. MaxLen, readable \in BOOLEAN}

\* The clones of one File on regular1 (File::try_clone, dup, a descriptor
\* received over a Unix domain socket): they share its description, and with
\* it the offset.
ClonedFiles ==
    {[File(paths[p], offset, TRUE, FALSE, 0) EXCEPT !.ofd = 1] :
        p \in {"regular1"} \cap DOMAIN paths, offset \in 0 .. MaxLen}

\* A File of a description that a running call holds a File of is at the
\* offset that File is at.
CanGive(file) ==
    LET inode == inodes[file.ino]
    IN  /\ file.offset <= Len(inode.data)
        /\ file.readable => MayRead(inode)
        /\ ~file.readable => (inode.kind = "reg" /\ MayWrite(inode))
        /\ file.ofd # 0 =>
               \A d \in Callers :
                   op[d].file.ofd = file.ofd =>
                       op[d].file.ino = file.ino /\ op[d].file.offset = file.offset

call_insert_from_path(c) ==
    /\ CanCall(c)
    /\ \E path \in DOMAIN paths :
           Start(c, Call("insert_from_path", path, inodes[paths[path]].data, <<>>,
                         NoFile, NoFile), "open")

call_insert_from_reader(c) ==
    /\ CanCall(c)
    /\ \E bytes \in Contents :
           Start(c, Call("insert_from_reader", "", bytes, <<>>, NoFile, NoFile),
                 "openat_tmpfile")

call_insert_from_file(c) ==
    /\ CanCall(c)
    /\ \E file \in GivenFiles :
           /\ CanGive(file)
           /\ Start(c, Call("insert_from_file", "", inodes[file.ino].data, <<>>,
                            file, file), "metadata")

\* The caller hands a clone of the File on regular1 to insert_from_file.
call_insert_from_clone(c) ==
    /\ CanCall(c)
    /\ \E file \in ClonedFiles :
           /\ CanGive(file)
           /\ Start(c, Call("insert_from_file", "", inodes[file.ino].data, <<>>,
                            file, file), "metadata")

call_get(c) ==
    /\ CanCall(c)
    /\ \E hash \in Hashes :
           Start(c, Call("get", "", <<>>, hash, NoFile, NoFile), "get_openat")

(* --------------------------- insert_from_path --------------------------- *)

O_NONBLOCK == 2048
FD_CLOEXEC == 1

\* x & !bit, for a power of two `bit`.
ClearBit(x, bit) == IF HasBit(x, bit) THEN x - bit ELSE x

\* Variant: O_NONBLOCK is left out.
insert_from_path_flags_blocking == OpenFlags(TRUE, FALSE)

\* Variant: O_NOFOLLOW is left out.
insert_from_path_flags_following == OpenFlags(FALSE, TRUE)

\* open_flags = O_NOCTTY | O_NOFOLLOW | O_CLOEXEC | O_NONBLOCK
insert_from_path_flags == OpenFlags(TRUE, TRUE)

\* OpenOptions::new().read(true).custom_flags(open_flags).open(&path)?  An
\* open that waits for a writer of a FIFO does not return.
insert_from_path_open(c) ==
    /\ pc[c] = "open"
    /\ OpenOutcome(paths, inodes, <<op[c].path>>, insert_from_path_flags).err
           # "EWOULDBLOCK_WAIT"
    /\ LET o == OpenOutcome(paths, inodes, <<op[c].path>>, insert_from_path_flags)
       IN  IF o.err # ""
           THEN Return(c, Err(o.err), op[c], inodes, objects)
           ELSE /\ Goto(c, "fcntl",
                        [op[c] EXCEPT !.file = File(o.ino, 0, TRUE, TRUE, FD_CLOEXEC)])
                /\ UNCHANGED <<inodes, objects>>
    /\ UNCHANGED <<paths, started, volumes>>

\* fcntl_setfd(&file, fcntl_getfd(&file)? & !O_NONBLOCK)?: F_GETFD and F_SETFD
\* read and write the descriptor flags, of which FD_CLOEXEC is the only one;
\* the file status flags, O_NONBLOCK among them, are not touched.
fcntl_setfd(file, arg) == [file EXCEPT !.fdflags = arg % 2]

fcntl_getfd(file) == file.fdflags

insert_from_path_fcntl(c) ==
    /\ pc[c] = "fcntl"
    /\ LET fd_flags == fcntl_getfd(op[c].file)
       IN  Goto(c, "metadata",
                [op[c] EXCEPT !.file = fcntl_setfd(@, ClearBit(fd_flags, O_NONBLOCK))])
    /\ UNCHANGED <<inodes, paths, objects, started, volumes>>

(* -------------------------- insert_from_reader -------------------------- *)

\* fsutil::openat(&self.directory, ".", O_RDWR | O_TMPFILE, 0o600)?: a regular
\* file without a name, on the volume's file system.  The directory of the
\* handle must be open to the caller for searching and writing, or the open
\* fails with EACCES and the call returns that error at once.  (A call that
\* names no handle is made on a volume directory as Volume::create leaves it.)
insert_from_reader_openat(c) ==
    /\ pc[c] = "openat_tmpfile"
    /\ LET ino == FreshIno(inodes)
           dir == IF "volume" \in DOMAIN op[c]
                  THEN inodes[volumes[c][op[c].volume].directory.ino]
                  ELSE NewDir
       IN  IF MaySearch(dir) /\ MayWrite(dir)
           THEN /\ inodes' = Extend(inodes, ino,
                                    [Inode("reg", <<>>, TmpfileMode, CallerUid,
                                           VolumeDev, <<>>)
                                        EXCEPT !.tmpfile = TRUE])
                /\ Goto(c, "copy", [op[c] EXCEPT !.file = File(ino, 0, TRUE, FALSE, 0)])
                /\ UNCHANGED objects
           ELSE Return(c, Err("EACCES"), op[c], inodes, objects)
    /\ UNCHANGED <<paths, started, volumes>>

\* copy(reader, &mut tmpfile)?: one write of the next byte per step, until the
\* reader is drained.
copy_done(inos, call) == call.file.offset >= Len(call.bytes)

insert_from_reader_copy(c) ==
    /\ pc[c] = "copy"
    /\ LET file == op[c].file
       IN  IF copy_done(inodes, op[c])
           THEN /\ Goto(c, "metadata", op[c])
                /\ UNCHANGED inodes
           ELSE /\ inodes' = [inodes EXCEPT ![file.ino].data =
                                  Append(@, op[c].bytes[file.offset + 1])]
                /\ Goto(c, "copy", [op[c] EXCEPT !.file.offset = @ + 1])
    /\ UNCHANGED objects
    /\ UNCHANGED <<paths, started, volumes>>

(* --------------------------- insert_from_file --------------------------- *)

\* let metadata = file.metadata()?; if !metadata.is_file() { return Err(EISDIR) }
insert_from_file_metadata(c) ==
    /\ pc[c] = "metadata"
    /\ IF is_file(inodes, op[c].file)
       THEN /\ Goto(c, "seek", op[c])
            /\ UNCHANGED <<inodes, objects>>
       ELSE Return(c, Err("EISDIR"), op[c], inodes, objects)
    /\ UNCHANGED <<paths, started, volumes>>

\* file.seek(SeekFrom::Start(0))?
insert_from_file_seek(c) ==
    /\ pc[c] = "seek"
    /\ LET s == seek_start(inodes, op[c].file)
       IN  IF s.err # ""
           THEN Return(c, Err(s.err), op[c], inodes, objects)
           ELSE /\ Goto(c, "hash", [op[c] EXCEPT !.file = s.file])
                /\ UNCHANGED <<inodes, objects>>
    /\ UNCHANGED <<paths, started, volumes>>

\* Variant: the name leaves out the first byte of the hash.
insert_path_truncated(hash) == ObjectName(Tail(hash))

\* let path = format!("objects/{}", hash)
insert_path(hash) == ObjectName(hash)

\* let hash = Hash::from_reader(&mut file)?: one read of the file per step.
insert_from_file_hash(c) ==
    /\ pc[c] = "hash"
    /\ LET h == from_reader(inodes, op[c].file, op[c].hashed)
           call == [op[c] EXCEPT !.file = h.file, !.hashed = h.hashed]
       IN  CASE h.err # "" -> Return(c, Err(h.err), op[c], inodes, objects)
             [] h.err = "" /\ h.done ->
                    /\ Goto(c, "linkat", [call EXCEPT !.hash = Sha256(h.hashed)])
                    /\ UNCHANGED <<inodes, objects>>
             [] OTHER ->
                    /\ Goto(c, "hash", call)
                    /\ UNCHANGED <<inodes, objects>>
    /\ UNCHANGED <<paths, started, volumes>>

\* let linkat_result = fsutil::linkat(..); match linkat_result { Ok(()) => (),
\* Err(err) if err.kind() == AlreadyExists => (), Err(err) => return Err(err) }
insert_from_file_linkat(c) ==
    /\ pc[c] = "linkat"
    /\ \E protected_hardlinks \in BOOLEAN :
           LET name == insert_path(op[c].hash)
               linkat_result == linkat([NewDir EXCEPT !.data = objects], inodes,
                                       op[c].file, name, protected_hardlinks)
               call == [op[c] EXCEPT !.linkat_result = linkat_result]
           IN  CASE linkat_result = "" ->
                        /\ objects' = link_entry(objects, name, op[c].file.ino)
                        /\ Goto(c, "chmod", call)
                        /\ UNCHANGED inodes
                 [] linkat_result # "" /\ already_exists(linkat_result) ->
                        /\ Goto(c, "chmod", call)
                        /\ UNCHANGED <<inodes, objects>>
                 [] OTHER -> Return(c, Err(linkat_result), call, inodes, objects)
    /\ UNCHANGED <<paths, started, volumes>>

\* file.set_permissions(Permissions::from_mode(0o400))?; Ok(hash)
insert_from_file_chmod(c) ==
    /\ pc[c] = "chmod"
    /\ LET e == set_permissions(inodes, op[c].file)
       IN  IF e # ""
           THEN Return(c, Err(e), op[c], inodes, objects)
           ELSE Return(c, Ok(op[c].hash), op[c],
                       readonly(inodes, op[c]), objects)
    /\ UNCHANGED <<paths, started, volumes>>

(* --------------------------------- get ---------------------------------- *)

\* open_flags = O_RDONLY | O_CLOEXEC | O_NOCTTY | O_NOFOLLOW
get_flags == OpenFlags(TRUE, FALSE)

\* Variant: the name is formatted in upper case ({:02X}).
get_path_upper(hash) ==
    [i \in 1 .. Len(ObjectName(hash)) |->
        IF ObjectName(hash)[i] >= 97 THEN ObjectName(hash)[i] - 32 ELSE ObjectName(hash)[i]]

\* let path = format!("objects/{}", hash)
get_path(hash) == ObjectName(hash)

\* fsutil::openat(&self.directory, path, open_flags, open_mode); NotFound =>
\* return Ok(None).  The open of a FIFO without a writer does not return.
get_openat(c) ==
    /\ pc[c] = "get_openat"
    /\ LET file_result == openat(objects, inodes, <<get_path(op[c].hash)>>, get_flags)
       IN  /\ file_result.err # "EWOULDBLOCK_WAIT"
           /\ CASE file_result.err = "" ->
                       /\ Goto(c, "get_metadata",
                               [op[c] EXCEPT !.file =
                                   File(file_result.ino, 0, TRUE, FALSE, FD_CLOEXEC)])
                       /\ UNCHANGED <<inodes, objects>>
                [] file_result.err # "" /\ not_found(file_result.err) ->
                       Return(c, OkNone, op[c], inodes, objects)
                [] OTHER -> Return(c, Err(file_result.err), op[c], inodes, objects)
    /\ UNCHANGED <<paths, started, volumes>>

\* let size = metadata.len(); if !metadata.is_file() { return Err(EISDIR) }
\* Ok(Some((file, size))).  The result holds what reading the handle yields.
get_metadata(c) ==
    /\ pc[c] = "get_metadata"
    /\ LET inode == inodes[op[c].file.ino]
       IN  IF is_file(inodes, op[c].file)
           THEN Return(c, OkSome(inode.data, Len(inode.data)), op[c], inodes, objects)
           ELSE Return(c, Err("EISDIR"), op[c], inodes, objects)
    /\ UNCHANGED <<paths, started, volumes>>

(* ----------------------------- Hash::from_str --------------------------- *)

\* if s.len() != 64: the length of the text form of a Hash.
HashTextLen == 64

\* pub bytes: [u8; 32]
HashLen == 32

\* What format!("{}", hash) returned: the text, as its bytes.
Text(s) == Result("Text", <<>>, "", s, Len(s))

\* Variant: the offset of the letters is left out (c - b'a').
hex_no_offset(c) ==
    CASE c >= 48 /\ c <= 57 -> [ok |-> TRUE, digit |-> c - 48]
      [] c >= 97 /\ c <= 102 -> [ok |-> TRUE, digit |-> c - 97]
      [] OTHER -> [ok |-> FALSE, digit |-> 0]

\* Variant: upper case letters are digits too.
hex_any_case(c) ==
    CASE c >= 48 /\ c <= 57 -> [ok |-> TRUE, digit |-> c - 48]
      [] c >= 97 /\ c <= 102 -> [ok |-> TRUE, digit |-> c - 97 + 10]
      [] c >= 65 /\ c <= 70 -> [ok |-> TRUE, digit |-> c - 65 + 10]
      [] OTHER -> [ok |-> FALSE, digit |-> 0]

\* fn hex(c: u8) -> Result<u8, InvalidHash>: b'0' ..= b'9' => Ok(c - b'0'),
\* b'a' ..= b'f' => Ok(c - b'a' + 10), _ => Err(InvalidHash).
hex(c) ==
    CASE c >= 48 /\ c <= 57 -> [ok |-> TRUE, digit |-> c - 48]
      [] c >= 97 /\ c <= 102 -> [ok |-> TRUE, digit |-> c - 97 + 10]
      [] OTHER -> [ok |-> FALSE, digit |-> 0]

\* hex(pair[0])? << 4 | hex(pair[1])? on u8: the shifted digit has its low four
\* bits clear and the other digit is below 16, so the or is the sum.
pair_byte(high, low) == ((high * 16) % 256) + low

\* Variant: upper case digits are read as lower case ones.
from_str_lenient(s) ==
    IF Len(s) # HashTextLen THEN Err("InvalidHash")
    ELSE LET digits == [i \in 1 .. HashTextLen |-> hex_any_case(s[i])]
         IN  IF \E i \in 1 .. HashTextLen : ~digits[i].ok
             THEN Err("InvalidHash")
             ELSE Ok([i \in 1 .. HashLen |->
                         pair_byte(digits[2 * i - 1].digit, digits[2 * i].digit)])

\* impl FromStr for Hash: Ok(hash) or Err(InvalidHash), s being the bytes of
\* the string.
from_str(s) ==
    IF Len(s) # HashTextLen THEN Err("InvalidHash")
    ELSE LET digits == [i \in 1 .. HashTextLen |-> hex(s[i])]
         IN  IF \E i \in 1 .. HashTextLen : ~digits[i].ok
             THEN Err("InvalidHash")
             ELSE Ok([i \in 1 .. HashLen |->
                         pair_byte(digits[2 * i - 1].digit, digits[2 * i].digit)])

(* ---------------------------- specification ----------------------------- *)

Next ==
    \E c \in Callers :
        \/ call_insert_from_path(c)
        \/ call_insert_from_reader(c)
        \/ call_insert_from_file(c)
        \/ call_get(c)
        \/ insert_from_path_open(c)
        \/ insert_from_path_fcntl(c)
        \/ insert_from_reader_openat(c)
        \/ insert_from_reader_copy(c)
        \/ insert_from_file_metadata(c)
        \/ insert_from_file_seek(c)
        \/ insert_from_file_hash(c)
        \/ insert_from_file_linkat(c)
        \/ insert_from_file_chmod(c)
        \/ get_openat(c)
        \/ get_metadata(c)

Spec == Init /\ [][Next]_vars

\* The callers of Spec, who also hand clones of one File to insert_from_file.
SpecShared == Init /\ [][Next \/ \E c \in Callers : call_insert_from_clone(c)]_vars

(* --------------------------- a corrupt volume --------------------------- *)

\* The entries of the objects directory that are not regular files.
Corrupted == {n \in DOMAIN objects : inodes[objects[n]].kind # "reg"}

\* Something other than the Volume has put a directory, a symlink, a FIFO or
\* a device where an object would be, before the callers arrive: the volume is
\* corrupt.  The symlink is one that symlink(2) makes: mode 0o777, and a
\* target, which names nothing.
corrupt ==
    /\ Cardinality(Corrupted) < MaxCorrupt
    /\ started = 0
    /\ \E hash \in Hashes, kind \in {"dir", "lnk", "fifo", "chr"} :
           LET ino == FreshIno(inodes)
               uid == IF kind = "chr" THEN OtherUid ELSE CallerUid
           IN  /\ ObjectName(hash) \notin DOMAIN objects
               /\ inodes' = Extend(inodes, ino,
                                   Inode(kind, <<>>,
                                         IF kind = "lnk" THEN 511 ELSE DefaultMode,
                                         uid, VolumeDev,
                                         IF kind = "lnk" THEN <<"nowhere">> ELSE <<>>))
               /\ objects' = Extend(objects, ObjectName(hash), ino)
    /\ UNCHANGED <<paths, pc, op, result, started, volumes>>

\* The callers get and insert streams on a volume that may be corrupt.
SpecCorrupt ==
    Init
        /\ [][\/ corrupt
              \/ \E c \in Callers :
                     \/ call_insert_from_reader(c)
                     \/ call_get(c)
                     \/ insert_from_reader_openat(c)
                     \/ insert_from_reader_copy(c)
                     \/ insert_from_file_metadata(c)
                     \/ insert_from_file_seek(c)
                     \/ insert_from_file_hash(c)
                     \/ insert_from_file_linkat(c)
                     \/ insert_from_file_chmod(c)
                     \/ get_openat(c)
                     \/ get_metadata(c)]_vars

(* ------------------------- formatting and parsing ----------------------- *)

\* The Hashes the callers format: the digests of the model's contents, every
\* hexadecimal digit in both halves of a byte, and Hashes whose first and last
\* bytes differ from the rest.
HashValues ==
    {Sha256(b) : b \in Contents}
        \cup {[i \in 1 .. HashLen |-> 17 * k] : k \in 0 .. 15}
        \cup {[i \in 1 .. HashLen |-> IF i = 1 THEN b ELSE 0] : b \in {1, 15, 16, 154, 169}}
        \cup {[i \in 1 .. HashLen |-> IF i = HashLen THEN b ELSE 255] : b \in {0, 10, 160, 175}}

\* Characters at the edges of the ranges '0'..'9' and 'a'..'f', upper case
\* letters, a space and a byte of a multi-byte character.
BoundaryChars == {32, 47, 48, 57, 58, 65, 70, 71, 88, 96, 97, 102, 103, 228}

\* The parseable examples of test_from_str.
BaseTexts ==
    {FormatHash(h) :
        h \in {[i \in 1 .. HashLen |-> 0], [i \in 1 .. HashLen |-> 255], Sha256(<<>>)}}

\* The text with every lower case letter replaced by its upper case letter.
UpperCase(s) == [i \in 1 .. Len(s) |-> IF s[i] >= 97 /\ s[i] <= 122 THEN s[i] - 32 ELSE s[i]]

\* The text of the digest of the empty sequence, with digits and letters.
MixedText == FormatHash(Sha256(<<>>))

\* The texts the callers parse: the examples, in lower and in upper case, a
\* text of 64 letters X, and the mixed example with one character replaced,
\* shortened and lengthened.
Texts ==
    BaseTexts
        \cup {UpperCase(b) : b \in BaseTexts}
        \cup {[i \in 1 .. HashTextLen |-> 88]}
        \cup {[MixedText EXCEPT ![i] = ch] : i \in {1, 2, HashTextLen}, ch \in BoundaryChars}
        \cup {SubSeq(MixedText, 1, n) : n \in {0, 1, 2, HashTextLen - 2, HashTextLen - 1}}
        \cup {MixedText \o <<48>>, <<32>> \o MixedText, MixedText \o <<10>>,
              MixedText \o MixedText}

\* A call of Hash::from_str(s) or of format!("{}", hash).  A from_str of the
\* text a format returned records the Hash that was formatted, a format of the
\* Hash a from_str returned records the text that was parsed.
HashCall(name, s, hash) == [name |-> name, s |-> s, hash |-> hash]

\* What a caller can parse: a text, or the text its format just returned.
ParseInputs(c) ==
    {[s |-> text, hash |-> <<>>] : text \in Texts}
        \cup (IF pc[c] = "done" /\ result[c].kind = "Text"
              THEN {[s |-> result[c].data, hash |-> op[c].hash]}
              ELSE {})

\* What a caller can format: a Hash, or the Hash its from_str just returned.
FormatInputs(c) ==
    {[s |-> <<>>, hash |-> h] : h \in HashValues}
        \cup (IF pc[c] = "done" /\ op[c].name = "from_str" /\ result[c].kind = "Ok"
              THEN {[s |-> op[c].s, hash |-> result[c].hash]}
              ELSE {})

\* Hash::from_str(s)
call_from_str(c) ==
    /\ CanCall(c)
    /\ \E input \in ParseInputs(c) :
           /\ pc' = [pc EXCEPT ![c] = "done"]
           /\ op' = [op EXCEPT ![c] = HashCall("from_str", input.s, input.hash)]
           /\ result' = [result EXCEPT ![c] = from_str(input.s)]
    /\ started' = started + 1
    /\ UNCHANGED <<inodes, paths, objects, volumes>>

\* format!("{}", hash)
call_fmt(c) ==
    /\ CanCall(c)
    /\ \E input \in FormatInputs(c) :
           /\ pc' = [pc EXCEPT ![c] = "done"]
           /\ op' = [op EXCEPT ![c] = HashCall("fmt", input.s, input.hash)]
           /\ result' = [result EXCEPT ![c] = Text(FormatHash(input.hash))]
    /\ started' = started + 1
    /\ UNCHANGED <<inodes, paths, objects, volumes>>

SpecHash == Init /\ [][\E c \in Callers : call_from_str(c) \/ call_fmt(c)]_vars

(* --------------------------- volumes by path ---------------------------- *)

\* In what follows a directory is an inode whose data is its entries, name ->
\* inode number, and `paths` is the directory of TestData::new's root_path.

\* A Volume handle: Volume{directory}, the File of the volume's directory.
\* `path` records the path the handle was opened from.
Volume(directory, path) == [directory |-> directory, path |-> path]

\* A call of create or open (path), or of a method of the caller's Volume
\* handle number `volume` (bytes, hash).
VolumeCall(name, volume, path, bytes, hash) ==
    [name |-> name, volume |-> volume, path |-> path, bytes |-> bytes,
     hash |-> hash, file |-> NoFile, hashed |-> <<>>, linkat_result |-> "none"]

\* The directory a path names, as open(path, O_DIRECTORY) for reading finds
\* it, symbolic links followed: [err, ino].  A directory the callers may not
\* read is EACCES.
lookup_directory(pths, inos, path) ==
    LET found == resolve(pths, inos, pths, <<path>>, FALSE, 40)
    IN  CASE found.err # "" -> found
          [] found.err = "" /\ inos[found.ino].kind # "dir" -> [err |-> "ENOTDIR", ino |-> 0]
          [] found.err = "" /\ inos[found.ino].kind = "dir" /\ ~MayRead(inos[found.ino]) ->
                 [err |-> "EACCES", ino |-> 0]
          [] OTHER -> found

\* Variant: an existing directory is accepted, as create_dir_all does.
create_dir_all(dir, inos, name) ==
    IF name \in DOMAIN dir /\ inos[dir[name]].kind # "dir" THEN "EEXIST" ELSE ""

\* std::fs::create_dir: mkdir(2) of the entry `name` of a directory: the error,
\* or "" when the directory can be made.
create_dir(dir, inos, name) == IF name \in DOMAIN dir THEN "EEXIST" ELSE ""

\* The paths callers create volumes at: a regular file, a directory, a volume,
\* a symbolic link and a path that does not exist.
CreatePaths == {"regular1", "directory1", "volume1", "link1", "volume3"}

\* Volume::create(path)
call_create(c) ==
    /\ CanCall(c)
    /\ \E path \in CreatePaths :
           Start(c, VolumeCall("create", 0, path, <<>>, <<>>), "create_dir")

\* create_dir(&pathbuf)?
create_dir_path(c) ==
    /\ pc[c] = "create_dir"
    /\ LET e == create_dir(paths, inodes, op[c].path)
           ino == FreshIno(inodes)
       IN  IF e # ""
           THEN /\ Return(c, Err(e), op[c], inodes, objects)
                /\ UNCHANGED paths
           ELSE /\ IF op[c].path \in DOMAIN paths
                   THEN UNCHANGED <<inodes, paths>>
                   ELSE /\ inodes' = Extend(inodes, ino, NewDir)
                        /\ paths' = Extend(paths, op[c].path, ino)
                /\ Goto(c, "create_dir_objects", op[c])
                /\ UNCHANGED objects
    /\ UNCHANGED <<started, volumes>>

\* pathbuf.push("objects"); create_dir(&pathbuf)?; Ok(())  mkdir(2) looks the
\* name up in the directory the path names (search permission), and makes the
\* entry when there is none (write permission).
create_dir_objects(c) ==
    /\ pc[c] = "create_dir_objects"
    /\ LET found == resolve(paths, inodes, paths, <<op[c].path>>, FALSE, 40)
           parent == CASE found.err # "" -> found
                       [] found.err = "" /\ inodes[found.ino].kind # "dir" ->
                              [err |-> "ENOTDIR", ino |-> 0]
                       [] found.err = "" /\ inodes[found.ino].kind = "dir"
                              /\ ~MaySearch(inodes[found.ino]) ->
                              [err |-> "EACCES", ino |-> 0]
                       [] OTHER -> found
           exists == IF parent.err # "" THEN parent.err
                     ELSE create_dir(inodes[parent.ino].data, inodes, "objects")
           e == IF exists = "" /\ ~MayWrite(inodes[parent.ino]) THEN "EACCES" ELSE exists
           ino == FreshIno(inodes)
       IN  IF e # ""
           THEN Return(c, Err(e), op[c], inodes, objects)
           ELSE Return(c, Ok(<<>>), op[c],
                       Extend([inodes EXCEPT ![parent.ino].data =
                                   Extend(@, "objects", ino)],
                              ino, NewDir),
                       objects)
    /\ UNCHANGED <<paths, started, volumes>>

\* The paths callers open volumes at.
OpenPaths == {"volume1", "link1", "volume3", "regular1", "directory1"}

\* Volume::open(path)
call_open(c) ==
    /\ CanCall(c)
    /\ \E path \in OpenPaths :
           Start(c, VolumeCall("open", 0, path, <<>>, <<>>), "open_directory")

\* OpenOptions::new().custom_flags(O_DIRECTORY).read(true).open(path)?;
\* Ok(Self{directory})
open_directory(c) ==
    /\ pc[c] = "open_directory"
    /\ LET o == lookup_directory(paths, inodes, op[c].path)
       IN  IF o.err # ""
           THEN /\ Return(c, Err(o.err), op[c], inodes, objects)
                /\ UNCHANGED volumes
           ELSE /\ volumes' = [volumes EXCEPT ![c] =
                                  Append(@, Volume(File(o.ino, 0, TRUE, FALSE, FD_CLOEXEC),
                                                   op[c].path))]
                /\ Return(c, Ok(<<>>), op[c], inodes, objects)
    /\ UNCHANGED <<paths, started>>

\* Variant: the handle is backed by the path, looked up again at each use.
directory_by_path(volume, pths, inos) == lookup_directory(pths, inos, volume.path).ino

\* &self.directory: the directory the descriptor of the handle refers to.
directory(volume, pths, inos) == volume.directory.ino

\* The directory that "objects" names in the directory `dir` of a handle, as
\* the paths "objects/<hash>" are resolved (a symbolic link followed): [err,
\* ino].
lookup_objects(inos, dir) ==
    IF dir \notin DOMAIN inos \/ inos[dir].kind # "dir" THEN [err |-> "ENOENT", ino |-> 0]
    ELSE IF ~MaySearch(inos[dir]) THEN [err |-> "EACCES", ino |-> 0]
    ELSE LET found == resolve(paths, inos, inos[dir].data, <<"objects">>, FALSE, 40)
         IN  CASE found.err # "" -> found
               [] found.err = "" /\ inos[found.ino].kind # "dir" ->
                      [err |-> "ENOTDIR", ino |-> 0]
               [] OTHER -> found

\* The inode of the objects directory of the directory `dir`, 0 when there is
\* none.
objects_of(inos, dir) == lookup_objects(inos, dir).ino

\* fsutil::openat(&self.directory, "objects/<name>", flags, mode)
openat_objects(inos, dir, name, flags) ==
    IF dir \notin DOMAIN inos \/ inos[dir].kind # "dir" THEN [err |-> "ENOENT", ino |-> 0]
    ELSE IF ~MaySearch(inos[dir]) THEN [err |-> "EACCES", ino |-> 0]
    ELSE openat(inos[dir].data, inos, <<"objects", name>>, flags)

\* Volume::get(&self, hash) as a whole, on the directory `dir`: what the call
\* returns.  On a FIFO without a writer the open does not return and the call
\* has no result: get is not defined there.
get(inos, dir, hash) ==
    LET file_result == openat_objects(inos, dir, get_path(hash), get_flags)
        file == File(file_result.ino, 0, TRUE, FALSE, FD_CLOEXEC)
    IN  CASE file_result.err = "" ->
                 IF is_file(inos, file)
                 THEN OkSome(inos[file.ino].data, Len(inos[file.ino].data))
                 ELSE Err("EISDIR")
          [] file_result.err # "" /\ not_found(file_result.err) -> OkNone
          [] file_result.err \notin {"", "EWOULDBLOCK_WAIT"}
                /\ ~not_found(file_result.err) -> Err(file_result.err)

\* volume.get(hash) on one of the caller's handles
call_volume_get(c) ==
    /\ CanCall(c)
    /\ \E v \in 1 .. Len(volumes[c]), hash \in Hashes :
           Start(c, VolumeCall("get", v, "", <<>>, hash), "volume_get")

\* The call returns what get gives; while its open waits for a writer of a
\* FIFO, it does not return.
volume_get(c) ==
    /\ pc[c] = "volume_get"
    /\ LET dir == directory(volumes[c][op[c].volume], paths, inodes)
       IN  /\ openat_objects(inodes, dir, get_path(op[c].hash), get_flags).err
                  # "EWOULDBLOCK_WAIT"
           /\ Return(c, get(inodes, dir, op[c].hash), op[c], inodes, objects)
    /\ UNCHANGED <<paths, started, volumes>>

\* volume.insert_from_reader(reader) on one of the caller's handles
call_volume_insert(c) ==
    /\ CanCall(c)
    /\ \E v \in 1 .. Len(volumes[c]), bytes \in Contents :
           Start(c, VolumeCall("insert_from_reader", v, "", bytes, <<>>),
                 "openat_tmpfile")

\* The link step of insert_from_file on a handle: fsutil::linkat(AT_FDCWD,
\* "/proc/self/fd/N", &self.directory, "objects/<hash>", AT_SYMLINK_FOLLOW),
\* the path being resolved from the directory of the handle.  Whether the
\* system protects hard links (fs.protected_hardlinks) is the machine's
\* setting, as in insert_from_file_linkat.
volume_linkat(c) ==
    /\ pc[c] = "linkat"
    /\ \E protected_hardlinks \in BOOLEAN :
           LET dir == directory(volumes[c][op[c].volume], paths, inodes)
               parent == lookup_objects(inodes, dir)
               name == insert_path(op[c].hash)
               linkat_result ==
                   IF parent.err # "" THEN parent.err
                   ELSE linkat(inodes[parent.ino], inodes, op[c].file, name,
                               protected_hardlinks)
               call == [op[c] EXCEPT !.linkat_result = linkat_result]
           IN  CASE linkat_result = "" ->
                        /\ inodes' = [inodes EXCEPT ![parent.ino].data =
                                         link_entry(@, name, op[c].file.ino)]
                        /\ Goto(c, "chmod", call)
                        /\ UNCHANGED objects
                 [] linkat_result # "" /\ already_exists(linkat_result) ->
                        /\ Goto(c, "chmod", call)
                        /\ UNCHANGED <<inodes, objects>>
                 [] OTHER -> Return(c, Err(linkat_result), call, inodes, objects)
    /\ UNCHANGED <<paths, started, volumes>>

\* A step of the insert_from_reader of caller c on one of its handles: the
\* next system call of its thread.
VolumeInsertStep(c) ==
    \/ insert_from_reader_openat(c)
    \/ insert_from_reader_copy(c)
    \/ insert_from_file_metadata(c)
    \/ insert_from_file_seek(c)
    \/ insert_from_file_hash(c)
    \/ volume_linkat(c)
    \/ insert_from_file_chmod(c)

\* The names a moved volume or link gets.
Moved(name) ==
    CASE name = "volume1" -> "moved1"
      [] name = "link1" -> "moved2"
      [] name = "volume3" -> "moved3"

\* Another process renames the path of a volume: rename(2).
rename ==
    /\ \E name \in {"volume1", "link1", "volume3"} :
           /\ name \in DOMAIN paths
           /\ Moved(name) \notin DOMAIN paths
           /\ paths' = [n \in (DOMAIN paths \ {name}) \cup {Moved(name)} |->
                           IF n = Moved(name) THEN paths[name] ELSE paths[n]]
    /\ UNCHANGED <<inodes, objects, pc, op, result, started, volumes>>

\* Another process unlinks the name of a volume: unlink(2) of a symbolic link
\* to the volume's directory.  (rmdir(2) of the directory itself fails with
\* ENOTEMPTY as long as it holds its objects directory.)
unlink ==
    /\ \E name \in {"link1", "moved2"} :
           /\ name \in DOMAIN paths
           /\ inodes[paths[name]].kind = "lnk"
           /\ paths' = [n \in DOMAIN paths \ {name} |-> paths[n]]
           /\ inodes' = [n \in DOMAIN inodes \ {paths[name]} |-> inodes[n]]
    /\ UNCHANGED <<objects, pc, op, result, started, volumes>>

\* TestData::new: the root directory with volume1 (inodes 9 and 10) and
\* volume2 (11 and 12).
VolumeInodes ==
    TestInodes(<<104>>, <<104, 104>>)
        \o <<Inode("dir", [n \in {"objects"} |-> 10], DirMode, CallerUid, VolumeDev, <<>>),
             NewDir,
             Inode("dir", [n \in {"objects"} |-> 12], DirMode, CallerUid, VolumeDev, <<>>),
             NewDir>>

VolumePaths ==
    [p \in DOMAIN TestPaths \cup {"volume1", "volume2"} |->
        CASE p = "volume1" -> 9
          [] p = "volume2" -> 11
          [] OTHER -> TestPaths[p]]

\* Another process makes a symbolic link to the directory of volume1 before
\* the callers arrive: symlink(2).
symlink ==
    /\ started = 0
    /\ {"link1", "moved2"} \cap DOMAIN paths = {}
    /\ "volume1" \in DOMAIN paths
    /\ LET ino == FreshIno(inodes)
       IN  /\ inodes' = Extend(inodes, ino,
                               Inode("lnk", <<>>, 511, CallerUid, VolumeDev, <<"volume1">>))
           /\ paths' = Extend(paths, "link1", ino)
    /\ UNCHANGED <<objects, pc, op, result, started, volumes>>

InitVolumes ==
    /\ inodes = VolumeInodes
    /\ paths = VolumePaths
    /\ objects = EmptyDir
    /\ pc = [c \in Callers |-> "idle"]
    /\ op = [c \in Callers |-> NoCall]
    /\ result = [c \in Callers |-> NoResult]
    /\ started = 0
    /\ volumes = [c \in Callers |-> <<>>]

SpecVolumes ==
    InitVolumes
        /\ [][\/ symlink
              \/ rename
              \/ unlink
              \/ \E c \in Callers :
                     \/ call_create(c)
                     \/ create_dir_path(c)
                     \/ create_dir_objects(c)
                     \/ call_open(c)
                     \/ open_directory(c)
                     \/ call_volume_get(c)
                     \/ volume_get(c)
                     \/ call_volume_insert(c)
                     \/ VolumeInsertStep(c)]_vars

(* -------------------------------- union -------------------------------- *)

\* A call of union_get(volumes, hash) or union_all(volumes), `volumes` being
\* the numbers of the caller's handles, in the order given, and its progress:
\* the results of the gets made so far (union_get); the number of volumes whose
\* all() was called, the names the directory stream of the current volume has
\* yet to return, the names each stream was opened with, and the items the
\* iterator has yielded.
UnionCall(name, vols, hash) ==
    [name |-> name, volumes |-> vols, hash |-> hash, file |-> NoFile,
     reports |-> <<>>, index |-> 0, stream |-> {}, snapshots |-> <<>>,
     yielded |-> <<>>]

\* The lists of volumes a caller passes, as in the tests and in other orders.
VolumeLists == {<<1, 2>>, <<2, 1>>, <<1>>}

\* The items the iterator that union_all returns has yielded, in order, Ok
\* and Err alike.
Items(yielded) == Result("Items", <<>>, "", yielded, Len(yielded))

\* Variant: errors are dropped like absent objects (r.ok().flatten()).
transpose_ok_only(report) == report.kind = "Some"

\* .filter_map(|r| r.transpose()): Ok(None) becomes None and is filtered out,
\* Ok(Some(x)) and Err(e) pass.
transpose(report) == report # OkNone

\* Variant: the last item that passes is taken (.last()).
last(reports, exhausted) ==
    LET passed == SelectSeq(reports, transpose)
    IN  CASE exhausted /\ passed # <<>> -> [done |-> TRUE, result |-> passed[Len(passed)]]
          [] exhausted /\ passed = <<>> -> [done |-> TRUE, result |-> OkNone]
          [] OTHER -> [done |-> FALSE, result |-> NoResult]

\* .next().transpose(): the first item that passes the filter, Ok(None) when
\* the volumes are exhausted without one; not done while neither is the case.
next(reports, exhausted) ==
    LET passed == SelectSeq(reports, transpose)
    IN  CASE passed # <<>> -> [done |-> TRUE, result |-> Head(passed)]
          [] passed = <<>> /\ exhausted -> [done |-> TRUE, result |-> OkNone]
          [] OTHER -> [done |-> FALSE, result |-> NoResult]

\* union_get(volumes, hash)
call_union_get(c) ==
    /\ CanCall(c)
    /\ \E vols \in VolumeLists, hash \in Hashes :
           Start(c, UnionCall("union_get", vols, hash), "union_get")

\* One pull of the iterator: .map(|v| v.get(hash)) on the next volume, if there
\* is one, and then what .next() makes of the results so far.  A get whose
\* open waits for a writer of a FIFO does not return, and neither does the pull.
union_get_next(c) ==
    /\ pc[c] = "union_get"
    /\ Len(op[c].reports) < Len(op[c].volumes)
           => openat_objects(inodes,
                             directory(volumes[c][op[c].volumes[Len(op[c].reports) + 1]],
                                       paths, inodes),
                             get_path(op[c].hash), get_flags).err # "EWOULDBLOCK_WAIT"
    /\ LET call == op[c]
           i == Len(call.reports) + 1
           reports == IF i > Len(call.volumes) THEN call.reports
                      ELSE Append(call.reports,
                                  get(inodes,
                                      directory(volumes[c][call.volumes[i]], paths, inodes),
                                      call.hash))
           found == next(reports, i > Len(call.volumes))
       IN  IF found.done
           THEN Return(c, found.result, [call EXCEPT !.reports = reports],
                       inodes, objects)
           ELSE /\ Goto(c, "union_get", [call EXCEPT !.reports = reports])
                /\ UNCHANGED <<inodes, objects>>
    /\ UNCHANGED <<paths, started, volumes>>

\* The entries readdir returns for every directory.
DotNames == {<<46>>, <<46, 46>>}

\* Volume::all(&self): the objects directory is opened and its stream read:
\* [err, stream], the stream being the names readdir has yet to return.
all(inos, dir) ==
    LET objs == objects_of(inos, dir)
    IN  IF objs = 0 \/ inos[objs].kind # "dir"
        THEN [err |-> "ENOENT", stream |-> {}]
        ELSE [err |-> "", stream |-> DotNames \cup DOMAIN inos[objs].data]

\* readdir(dirp): the entries it can return next (in no particular order);
\* Ok(None) when there is none.
readdir(stream) == stream

\* The iterator of all(): the names readdir returns that parse as a Hash; the
\* others are discarded.
all_next(stream) == {name \in readdir(stream) : from_str(name).kind = "Ok"}

\* Variant: the errors are yielded before the Hashes.
flat_map_errors_first(yielded, item) ==
    IF item.item.kind = "Err" THEN <<item>> \o yielded ELSE Append(yielded, item)

\* Variant: nothing is yielded after an error.
flat_map_until_error(yielded, item) ==
    IF \E j \in 1 .. Len(yielded) : yielded[j].item.kind = "Err"
    THEN yielded
    ELSE Append(yielded, item)

\* Variant: a Hash that was yielded before is not yielded again.
flat_map_unique(yielded, item) ==
    IF \E j \in 1 .. Len(yielded) : yielded[j].item = item.item
    THEN yielded
    ELSE Append(yielded, item)

\* .flat_map(|i| iter_result_iter(i)).map(|r| r.unwrap_or_else(Err)): every
\* item of every volume's iterator is passed on.
flat_map(yielded, item) == Append(yielded, item)

\* union_all(volumes), collected by the caller
call_union_all(c) ==
    /\ CanCall(c)
    /\ \E vols \in VolumeLists :
           Start(c, UnionCall("union_all", vols, <<>>), "union_all")

\* One step of the iterator: the next Hash of the current volume; or, when it
\* has none left, .map(|v| v.all()) on the next volume; or the end.
union_all_next(c) ==
    /\ pc[c] = "union_all"
    /\ LET call == op[c]
           i == call.index + 1
       IN  CASE all_next(call.stream) # {} ->
                    /\ \E name \in all_next(call.stream) :
                           Goto(c, "union_all",
                                [call EXCEPT
                                    !.stream = @ \ {name},
                                    !.yielded = flat_map(@, [volume |-> call.index,
                                                             item |-> from_str(name)])])
                    /\ UNCHANGED <<inodes, objects>>
             [] all_next(call.stream) = {} /\ i <= Len(call.volumes) ->
                    LET opened == all(inodes,
                                      directory(volumes[c][call.volumes[i]], paths, inodes))
                    IN  /\ Goto(c, "union_all",
                                [call EXCEPT
                                    !.index = i,
                                    !.stream = opened.stream,
                                    !.snapshots = Append(@, opened.stream),
                                    !.yielded = IF opened.err = "" THEN @
                                                ELSE flat_map(@, [volume |-> i,
                                                                  item |-> Err(opened.err)])])
                        /\ UNCHANGED <<inodes, objects>>
             [] OTHER -> Return(c, Items(call.yielded), call, inodes, objects)
    /\ UNCHANGED <<paths, started, volumes>>

\* What another program can leave in an objects directory: files whose names
\* are no Hash (a name in upper case, README), and a directory or a symbolic
\* link under the name of an object.
ForeignEntries ==
    {[name |-> UpperCase(ObjectName(Sha256(<<104>>))), kind |-> "reg"],
     [name |-> <<82, 69, 65, 68, 77, 69>>, kind |-> "reg"],
     [name |-> ObjectName(Sha256(<<104>>)), kind |-> "dir"],
     [name |-> ObjectName(Sha256(<<104>>)), kind |-> "lnk"]}

\* The foreign entries of the objects directory of the volume at a path.
ForeignIn(path) ==
    LET dir == inodes[objects_of(inodes, paths[path])].data
    IN  {n \in DOMAIN dir : inodes[dir[n]].kind # "reg" \/ ~(from_str(n).kind = "Ok")}

\* Another program has put a foreign entry into volume1 before the callers
\* arrive; a symbolic link has the mode 0o777 and a target, which names
\* nothing.
foreign ==
    /\ started = 0
    /\ Cardinality(ForeignIn("volume1")) < MaxCorrupt
    /\ \E entry \in ForeignEntries :
           LET ino == FreshIno(inodes)
               objs == objects_of(inodes, paths["volume1"])
           IN  /\ entry.name \notin DOMAIN inodes[objs].data
               /\ inodes' = Extend([inodes EXCEPT ![objs].data = Extend(@, entry.name, ino)],
                                   ino,
                                   Inode(entry.kind, <<>>,
                                         IF entry.kind = "lnk" THEN 511 ELSE DefaultMode,
                                         CallerUid, VolumeDev,
                                         IF entry.kind = "lnk" THEN <<"nowhere">>
                                         ELSE <<>>))
    /\ UNCHANGED <<paths, objects, pc, op, result, started, volumes>>

\* test_union_get, test_union_all: TestData::new, then every caller opens
\* volume1 and volume2.
InitUnion ==
    /\ inodes = VolumeInodes
    /\ paths = VolumePaths
    /\ objects = EmptyDir
    /\ pc = [c \in Callers |-> "idle"]
    /\ op = [c \in Callers |-> NoCall]
    /\ result = [c \in Callers |-> NoResult]
    /\ started = 0
    /\ volumes = [c \in Callers |->
                     <<Volume(File(VolumePaths["volume1"], 0, TRUE, FALSE, FD_CLOEXEC),
                              "volume1"),
                       Volume(File(VolumePaths["volume2"], 0, TRUE, FALSE, FD_CLOEXEC),
                              "volume2")>>]

SpecUnion ==
    InitUnion
        /\ [][\/ foreign
              \/ \E c \in Callers :
                     \/ call_volume_insert(c)
                     \/ VolumeInsertStep(c)
                     \/ call_union_get(c)
                     \/ union_get_next(c)
                     \/ call_union_all(c)
                     \/ union_all_next(c)]_vars

(* ------------------------- the calls of a handle ------------------------- *)

\* volume.insert_from_path(path) on one of the caller's handles
call_volume_insert_from_path(c) ==
    /\ CanCall(c)
    /\ \E v \in 1 .. Len(volumes[c]), path \in DOMAIN paths :
           Start(c, VolumeCall("insert_from_path", v, path, inodes[paths[path]].data,
                               <<>>),
                 "open")

\* volume.insert_from_file(file) on one of the caller's handles
call_volume_insert_from_file(c) ==
    /\ CanCall(c)
    /\ \E v \in 1 .. Len(volumes[c]), file \in GivenFiles :
           /\ CanGive(file)
           /\ Start(c, [VolumeCall("insert_from_file", v, "", inodes[file.ino].data,
                                   <<>>)
                           EXCEPT !.file = file],
                    "metadata")

\* volume.all() on one of the caller's handles, collected by the caller: the
\* iterator of union_all over that one volume.
call_volume_all(c) ==
    /\ CanCall(c)
    /\ \E v \in 1 .. Len(volumes[c]) :
           Start(c, UnionCall("all", <<v>>, <<>>), "union_all")

\* Every call of the contract, made on handles: the callers hold a handle to
\* volume1 and one to volume2, open more, create volumes, and insert, get and
\* list through any handle they hold.
SpecLifecycle ==
    InitUnion
        /\ [][\E c \in Callers :
                  \/ call_create(c)
                  \/ create_dir_path(c)
                  \/ create_dir_objects(c)
                  \/ call_open(c)
                  \/ open_directory(c)
                  \/ call_volume_insert_from_path(c)
                  \/ insert_from_path_open(c)
                  \/ insert_from_path_fcntl(c)
                  \/ call_volume_insert_from_file(c)
                  \/ call_volume_insert(c)
                  \/ VolumeInsertStep(c)
                  \/ call_volume_get(c)
                  \/ volume_get(c)
                  \/ call_volume_all(c)
                  \/ union_all_next(c)]_vars

(* ----------------------------- file offsets ----------------------------- *)

\* The test data with two bytes in regular1, so that a File on it can be at
\* the start, in the middle or at the end.
InitOffsets ==
    /\ inodes = TestInodes(<<104, 104>>, <<104>>)
    /\ paths = TestPaths
    /\ objects = EmptyDir
    /\ pc = [c \in Callers |-> "idle"]
    /\ op = [c \in Callers |-> NoCall]
    /\ result = [c \in Callers |-> NoResult]
    /\ started = 0
    /\ volumes = [c \in Callers |-> <<>>]

\* The callers hand open files to insert_from_file and get objects.
SpecOffsets ==
    InitOffsets
        /\ [][\E c \in Callers :
                  \/ call_insert_from_file(c)
                  \/ call_insert_from_clone(c)
                  \/ call_get(c)
                  \/ insert_from_file_metadata(c)
                  \/ insert_from_file_seek(c)
                  \/ insert_from_file_hash(c)
                  \/ insert_from_file_linkat(c)
                  \/ insert_from_file_chmod(c)
                  \/ get_openat(c)
                  \/ get_metadata(c)]_vars

(* ------------------------------- retries -------------------------------- *)

\* A caller whose insert returned an error inserts the same bytes again: the
\* same call, or the same bytes from another source.  The call is marked as a
\* retry.
retry(c) ==
    /\ CanCall(c)
    /\ pc[c] = "done"
    /\ op[c].name \in {"insert_from_path", "insert_from_reader", "insert_from_file"}
    /\ result[c].kind = "Err"
    /\ LET bytes == op[c].bytes
           mark == [retry |-> TRUE]
       IN  \/ \E path \in {p \in DOMAIN paths : inodes[paths[p]].data = bytes} :
                  Start(c, mark @@ Call("insert_from_path", path, bytes, <<>>,
                                        NoFile, NoFile), "open")
           \/ Start(c, mark @@ Call("insert_from_reader", "", bytes, <<>>,
                                    NoFile, NoFile), "openat_tmpfile")
           \/ \E file \in {f \in GivenFiles : CanGive(f) /\ inodes[f.ino].data = bytes} :
                  Start(c, mark @@ Call("insert_from_file", "", bytes, <<>>,
                                        file, file), "metadata")

SpecRetry ==
    Init
        /\ [][\E c \in Callers :
                  \/ call_insert_from_path(c)
                  \/ call_insert_from_reader(c)
                  \/ call_insert_from_file(c)
                  \/ retry(c)
                  \/ insert_from_path_open(c)
                  \/ insert_from_path_fcntl(c)
                  \/ insert_from_reader_openat(c)
                  \/ insert_from_reader_copy(c)
                  \/ insert_from_file_metadata(c)
                  \/ insert_from_file_seek(c)
                  \/ insert_from_file_hash(c)
                  \/ insert_from_file_linkat(c)
                  \/ insert_from_file_chmod(c)]_vars

(* ----------------------------- termination ------------------------------ *)

\* A step of the insert_from_path of caller c: the next system call of its
\* thread.
PathStep(c) ==
    \/ insert_from_path_open(c)
    \/ insert_from_path_fcntl(c)
    \/ insert_from_file_metadata(c)
    \/ insert_from_file_seek(c)
    \/ insert_from_file_hash(c)
    \/ insert_from_file_linkat(c)
    \/ insert_from_file_chmod(c)

\* The calls are synchronous: a thread inside a call goes on to its next
\* system call, and the call takes a step whenever the system call returns.
SpecPath ==
    Init
        /\ [][\E c \in Callers : call_insert_from_path(c) \/ PathStep(c)]_vars
        /\ \A c \in Callers : WF_vars(PathStep(c))

\* A step of the get or of the insert_from_reader of caller c: the next system
\* call of its thread.
CorruptStep(c) ==
    \/ insert_from_reader_openat(c)
    \/ insert_from_reader_copy(c)
    \/ insert_from_file_metadata(c)
    \/ insert_from_file_seek(c)
    \/ insert_from_file_hash(c)
    \/ insert_from_file_linkat(c)
    \/ insert_from_file_chmod(c)
    \/ get_openat(c)
    \/ get_metadata(c)

\* The callers on a volume that may be corrupt, every thread going on to its
\* next system call whenever the one it is in returns.
SpecCorruptFair == SpecCorrupt /\ \A c \in Callers : WF_vars(CorruptStep(c))

(* ----------------------------- source paths ----------------------------- *)

\* The inodes once the name of `ino` is gone from the directory, which is then
\* `pths`: the inode stays while it has another name or a caller has it open.
Forget(ino, pths) ==
    IF LinkCount(ino, inodes, pths, objects) = 0 /\ \A c \in Callers : op[c].file.ino # ino
    THEN [n \in DOMAIN inodes \ {ino} |-> inodes[n]]
    ELSE inodes

\* Another process renames a source file: rename(2) of regular1 to a new name,
\* or of regular2 to regular1, which replaces regular1 by a different file.
rename_path ==
    /\ \E from \in {"regular1", "regular2"}, to \in {"regular1", "renamed1"} :
           /\ from # to
           /\ from \in DOMAIN paths
           /\ from = "regular1" => to \notin DOMAIN paths
           /\ from = "regular2" => to \in DOMAIN paths
           /\ LET pths == [n \in (DOMAIN paths \ {from}) \cup {to} |->
                              IF n = to THEN paths[from] ELSE paths[n]]
              IN  /\ paths' = pths
                  /\ inodes' = IF to \in DOMAIN paths
                               THEN Forget(paths[to], pths)
                               ELSE inodes
    /\ UNCHANGED <<objects, pc, op, result, started, volumes>>

\* Another process removes a source file: unlink(2).
unlink_path ==
    /\ \E name \in {"regular1", "renamed1"} :
           /\ name \in DOMAIN paths
           /\ LET pths == [n \in DOMAIN paths \ {name} |-> paths[n]]
              IN  /\ paths' = pths
                  /\ inodes' = Forget(paths[name], pths)
    /\ UNCHANGED <<objects, pc, op, result, started, volumes>>

\* Another process puts a device node where regular1 was, once the callers
\* have started: mknod(2) on the file system of the volume.
mknod_path ==
    /\ "regular1" \notin DOMAIN paths
    /\ started > 0
    /\ \A n \in DOMAIN inodes : inodes[n].kind = "chr" => inodes[n].dev # VolumeDev
    /\ LET ino == FreshIno(inodes)
       IN  /\ inodes' = Extend(inodes, ino,
                               Inode("chr", <<>>, DefaultMode, CallerUid, VolumeDev, <<>>))
           /\ paths' = Extend(paths, "regular1", ino)
    /\ UNCHANGED <<objects, pc, op, result, started, volumes>>

\* The callers insert by path while the source files are renamed, replaced
\* and removed; regular1 and regular2 hold different bytes.
SpecSource ==
    InitOffsets
        /\ [][\/ rename_path
              \/ unlink_path
              \/ mknod_path
              \/ \E c \in Callers : call_insert_from_path(c) \/ PathStep(c)]_vars

(* --------------------------- directory streams -------------------------- *)

\* fdopendir(fd): the caller hands over an open file of any kind.
call_fdopendir(c) ==
    /\ CanCall(c)
    /\ \E file \in {f \in GivenFiles : CanGive(f)} :
           Start(c, Call("fdopendir", "", <<>>, <<>>, file, file), "fdopendir")

\* fd.into_raw_fd() gives up the ownership of the descriptor, and
\* libc::fdopendir takes it over only when it succeeds: the Dir it returns then
\* owns the descriptor (closedir closes it), which has been made close-on-exec.
\* When it fails (ENOTDIR for a file that is no directory) Err is returned and
\* nothing closes the descriptor: it stays open in the process, its flags as
\* they were.
fdopendir(c) ==
    /\ pc[c] = "fdopendir"
    /\ pc' = [pc EXCEPT ![c] = "done"]
    /\ IF inodes[op[c].file.ino].kind = "dir"
       THEN /\ result' = [result EXCEPT ![c] = Result("Dir", <<>>, "", <<>>, 0)]
            /\ op' = [op EXCEPT ![c].file = fcntl_setfd(@, FD_CLOEXEC)]
       ELSE /\ result' = [result EXCEPT ![c] = Err("ENOTDIR")]
            /\ UNCHANGED op
    /\ UNCHANGED <<inodes, paths, objects, started, volumes>>

\* The callers make directory streams of open files, insert from readers and
\* get objects.
SpecDir ==
    Init
        /\ [][\E c \in Callers :
                  \/ call_fdopendir(c)
                  \/ fdopendir(c)
                  \/ call_insert_from_reader(c)
                  \/ call_get(c)
                  \/ CorruptStep(c)]_vars

(* ------------------------------ ParsedPath ------------------------------ *)

\* s.split('/'): the strings between the forward solidi, one more than there
\* are solidi (the empty string has one component, the empty one).
split(s) ==
    LET cuts == {0} \cup {i \in 1 .. Len(s) : s[i] = 47} \cup {Len(s) + 1}
        cut(k) == CHOOSE a \in cuts : Cardinality({b \in cuts : b < a}) = k
    IN  [k \in 1 .. Cardinality(cuts) - 1 |-> SubSeq(s, cut(k - 1) + 1, cut(k) - 1)]

\* enum ParsedPath: Root, Objects, ObjectsObject(Hash); None of Option.
ParsedPath(kind, hash) == Result(kind, hash, "", <<>>, 0)

\* "objects"
ObjectsComponent == <<111, 98, 106, 101, 99, 116, 115>>

\* fn from_objects_components(components): the components after "objects".
from_objects_components(components) ==
    CASE Len(components) = 0 -> ParsedPath("Objects", <<>>)
      [] Len(components) = 1 ->
             LET hash == from_str(components[1])
             IN  IF hash.kind = "Ok" THEN ParsedPath("ObjectsObject", hash.hash)
                 ELSE ParsedPath("None", <<>>)
      [] OTHER -> ParsedPath("None", <<>>)

\* Variant: the empty components are kept.
from_components_unfiltered(components) ==
    CASE components = <<>> -> ParsedPath("Root", <<>>)
      [] components # <<>> /\ Head(components) = ObjectsComponent ->
             from_objects_components(Tail(components))
      [] OTHER -> ParsedPath("None", <<>>)

\* pub fn from_components(components) -> Option<Self>: only the non-empty
\* components are kept.
from_components(components) ==
    LET kept == SelectSeq(components, LAMBDA c : c # <<>>)
    IN  CASE kept = <<>> -> ParsedPath("Root", <<>>)
          [] kept # <<>> /\ Head(kept) = ObjectsComponent ->
                 from_objects_components(Tail(kept))
          [] OTHER -> ParsedPath("None", <<>>)

\* impl FromStr for ParsedPath: from_components(s.split('/')).ok_or(InvalidPath)
ParsedPath_from_str(s) ==
    LET parsed == from_components(split(s))
    IN  IF parsed.kind = "None" THEN Err("InvalidPath") ELSE parsed

\* The paths of test_from_str and their like: lists of the components of the
\* examples (objects, hello, objectsx, x and the four hashes: 64 f, 64 x, 64 F,
\* 65 zeros), written with or without a leading solidus, a trailing solidus
\* and doubled solidi.  `parts` are the non-empty components.
PathInputs ==
    LET hello == <<104, 101, 108, 108, 111>>
        objectsx == ObjectsComponent \o <<120>>
        x == <<120>>
        hashes == {[i \in 1 .. HashTextLen |-> ch] : ch \in {102, 120, 70}}
                     \cup {[i \in 1 .. HashTextLen + 1 |-> 48]}
        words == {ObjectsComponent, hello, objectsx, x} \cup hashes
        lists == {<<>>}
                     \cup {<<w>> : w \in {ObjectsComponent, hello, objectsx}}
                     \cup {<<ObjectsComponent, w>> : w \in words}
                     \cup {<<hello, x>>,
                           <<ObjectsComponent, x, [i \in 1 .. HashTextLen |-> 102]>>,
                           <<ObjectsComponent, [i \in 1 .. HashTextLen |-> 102], x>>}
        styles == {<<0, 1, 0>>, <<1, 1, 0>>, <<0, 1, 1>>, <<1, 1, 1>>, <<1, 2, 0>>,
                   <<1, 2, 1>>}
        solidi(n) == [i \in 1 .. n |-> 47]
        written(parts, lead, sep, trail) ==
            solidi(lead)
                \o (IF parts = <<>> THEN <<>> ELSE parts[1])
                \o (IF Len(parts) >= 2 THEN solidi(sep) \o parts[2] ELSE <<>>)
                \o (IF Len(parts) >= 3 THEN solidi(sep) \o parts[3] ELSE <<>>)
                \o solidi(trail)
    IN  {[s |-> written(parts, style[1], style[2], style[3]), parts |-> parts] :
            parts \in lists, style \in styles}

\* s.parse::<ParsedPath>()
call_parse(c) ==
    /\ CanCall(c)
    /\ \E input \in PathInputs :
           /\ pc' = [pc EXCEPT ![c] = "done"]
           /\ op' = [op EXCEPT ![c] = [name |-> "parse", s |-> input.s,
                                      parts |-> input.parts]]
           /\ result' = [result EXCEPT ![c] = ParsedPath_from_str(input.s)]
    /\ started' = started + 1
    /\ UNCHANGED <<inodes, paths, objects, volumes>>

SpecParse == Init /\ [][\E c \in Callers : call_parse(c)]_vars

(* ------------------------- failing directory reads ---------------------- *)

\* Variant: the iterator of all() goes on reading the stream after an error.
all_after_error_resumes(stream) == stream

\* The iterator of all() after readdir returned Err: it has ended, nothing of
\* the stream is read any more.
all_after_error(stream) == {}

\* The step of the iterator in which libc::readdir returns NULL with errno set
\* (EIO) on the stream of the current volume: readdir returns
\* Err(Error::last_os_error()), the iterator of all() yields it as its one
\* failing item, and union_all passes it on.  An iterator that has ended, or
\* that never had a stream because all() failed, calls readdir no more.
union_all_next_fails(c) ==
    /\ pc[c] = "union_all"
    /\ LET call == op[c]
           errors == {j \in 1 .. Len(call.yielded) : call.yielded[j].item.kind = "Err"}
       IN  /\ call.index >= 1
           /\ \A j \in errors : call.yielded[j].volume # call.index
           /\ Cardinality({j \in errors : call.yielded[j].item.err = "EIO"}) < MaxFaults
           /\ Goto(c, "union_all",
                   [call EXCEPT
                       !.stream = all_after_error(@),
                       !.yielded = flat_map(@, [volume |-> call.index,
                                                item |-> Err("EIO")])])
    /\ UNCHANGED <<inodes, paths, objects, started, volumes>>

\* Another program removes the objects directory of volume1 while it is
\* empty: rmdir(2).  all() on the volume then fails.
rmdir_objects ==
    /\ LET dir == paths["volume1"]
           objs == objects_of(inodes, dir)
       IN  /\ objs # 0
           /\ inodes[objs].data = EmptyDir
           /\ inodes' = [n \in DOMAIN inodes \ {objs} |->
                            IF n = dir THEN [inodes[n] EXCEPT !.data = EmptyDir]
                            ELSE inodes[n]]
    /\ UNCHANGED <<paths, objects, pc, op, result, started, volumes>>

\* The callers insert into their volumes and list them while reads of the
\* directories can fail.
SpecFaults ==
    InitUnion
        /\ [][\/ rmdir_objects
              \/ \E c \in Callers :
                  \/ call_volume_insert(c)
                  \/ VolumeInsertStep(c)
                  \/ call_union_all(c)
                  \/ union_all_next(c)
                  \/ union_all_next_fails(c)]_vars

(* ---------------------------- failing readers --------------------------- *)

\* copy(reader, &mut tmpfile)?: the reader returns an error, at the start or
\* midway; the call returns it and the temporary file is dropped.
insert_from_reader_copy_fails(c) ==
    /\ pc[c] = "copy"
    /\ ~copy_done(inodes, op[c])
    /\ Return(c, Err("EIO"), op[c], inodes, objects)
    /\ UNCHANGED <<paths, started, volumes>>

\* The callers insert from readers that can fail, and get objects.
SpecReader ==
    Init
        /\ [][\E c \in Callers :
                  \/ call_insert_from_reader(c)
                  \/ call_get(c)
                  \/ CorruptStep(c)
                  \/ insert_from_reader_copy_fails(c)]_vars

(* --------------------------- iter_result_iter --------------------------- *)

\* iter_result_iter(res): IterResultIter{inner: res.map_err(once)}.  An
\* iterator is the sequence of the items it has yet to yield; once(e) is the
\* iterator of the one item e.
iter_result_iter(res) ==
    IF res.kind = "Ok"
    THEN [kind |-> "Ok", iter |-> res.value]
    ELSE [kind |-> "Err", iter |-> <<res.value>>]

\* Variant: an error yields nothing (the Err arm returns None).
IterResultIter_next_ok_only(self) ==
    IF self.kind = "Ok" /\ self.iter # <<>>
    THEN [item |-> [kind |-> "Ok", value |-> Head(self.iter)],
          self |-> [self EXCEPT !.iter = Tail(@)]]
    ELSE [item |-> [kind |-> "None", value |-> 0], self |-> self]

\* fn next(&mut self): Ok(iter) => iter.next().map(Ok), Err(iter) =>
\* iter.next().map(Err): the item, None at the end, and the iterator after the
\* call.
IterResultIter_next(self) ==
    IF self.iter = <<>>
    THEN [item |-> [kind |-> "None", value |-> 0], self |-> self]
    ELSE [item |-> [kind |-> self.kind, value |-> Head(self.iter)],
          self |-> [self EXCEPT !.iter = Tail(@)]]

\* iter_result_iter(r).collect::<Vec<_>>() for r like those of
\* test_iter_result_iter: Ok of an iterator over up to three numbers, or Err of
\* a number.
call_iter_result_iter(c) ==
    /\ CanCall(c)
    /\ \E r \in {[kind |-> "Ok", value |-> s] :
                    s \in UNION {[1 .. n -> 1 .. 3] : n \in 0 .. 3}}
                  \cup {[kind |-> "Err", value |-> e] : e \in 1 .. 2} :
           Start(c, [name |-> "iter_result_iter", result |-> r,
                     inner |-> iter_result_iter(r), file |-> NoFile,
                     yielded |-> <<>>], "collect")

\* One next() of collect: the item is pushed, None ends the collection.
collect_next(c) ==
    /\ pc[c] = "collect"
    /\ LET n == IterResultIter_next(op[c].inner)
       IN  IF n.item.kind = "None"
           THEN Return(c, Items(op[c].yielded), [op[c] EXCEPT !.inner = n.self],
                       inodes, objects)
           ELSE /\ Goto(c, "collect",
                        [op[c] EXCEPT !.inner = n.self,
                                      !.yielded = Append(@, n.item)])
                /\ UNCHANGED <<inodes, objects>>
    /\ UNCHANGED <<paths, started, volumes>>

SpecIter ==
    Init /\ [][\E c \in Callers : call_iter_result_iter(c) \/ collect_next(c)]_vars

(* ------------------------------- readdir -------------------------------- *)

\* Variant: errno is not set to zero before the call.
fsutil_readdir_no_reset(stream, errno, fault) ==
    LET after == IF fault # "" THEN fault ELSE errno
    IN  IF fault # "" \/ stream = {}
        THEN {[result |-> IF after = "" THEN OkNone ELSE Err(after),
               stream |-> stream, errno |-> after]}
        ELSE {[result |-> OkSome(name, Len(name)), stream |-> stream \ {name},
               errno |-> after] : name \in stream}

\* fsutil::readdir(dirp), the thread's errno being `errno` before the call:
\* errno is set to zero, then libc::readdir either returns the next entry of
\* the stream (in no particular order), or NULL at the end of the stream,
\* leaving errno as it is, or NULL with errno set to `fault` when the read
\* fails.  NULL with errno zero is Ok(None), NULL otherwise
\* Err(Error::last_os_error()).  The outcomes: what is returned, the stream and
\* errno after the call.
fsutil_readdir(stream, errno, fault) ==
    LET zeroed == ""
        after == IF fault # "" THEN fault ELSE zeroed
    IN  IF fault # "" \/ stream = {}
        THEN {[result |-> IF after = "" THEN OkNone ELSE Err(after),
               stream |-> stream, errno |-> after]}
        ELSE {[result |-> OkSome(name, Len(name)), stream |-> stream \ {name},
               errno |-> after] : name \in stream}

\* A caller reads a directory stream entry by entry, until readdir returns
\* Ok(None) or an error.  The directory holds . and .. and up to two files;
\* errno may hold the error of an earlier failed call of the thread, which
\* `stale` keeps.
call_readdir(c) ==
    /\ CanCall(c)
    /\ \E names \in {{}, {ObjectName(Sha256(<<104>>))},
                      {ObjectName(Sha256(<<104>>)), <<82, 69, 65, 68, 77, 69>>}},
          errno \in {"", "ENOENT"} :
           Start(c, [name |-> "readdir", stream |-> DotNames \cup names,
                     errno |-> errno, stale |-> errno, fault |-> "",
                     file |-> NoFile,
                     yielded |-> <<>>], "readdir")

\* One call of readdir; the read of the directory can fail with EIO, which is
\* recorded in `fault`.
readdir_next(c) ==
    /\ pc[c] = "readdir"
    /\ \E fault \in {"", "EIO"} :
       \E out \in fsutil_readdir(op[c].stream, op[c].errno, fault) :
           LET call == [op[c] EXCEPT !.stream = out.stream, !.errno = out.errno,
                                     !.fault = fault]
           IN  IF out.result.kind = "Some"
               THEN /\ Goto(c, "readdir",
                            [call EXCEPT !.yielded = Append(@, out.result.data)])
                    /\ UNCHANGED <<inodes, objects>>
               ELSE Return(c, out.result, call, inodes, objects)
    /\ UNCHANGED <<paths, started, volumes>>

SpecReaddir ==
    Init /\ [][\E c \in Callers : call_readdir(c) \/ readdir_next(c)]_vars

(* ------------------------------ properties ----------------------------- *)

Running(c) == pc[c] \notin {"idle", "done"}

Done(c) == pc[c] = "done"

IsInsert(call) ==
    call.name \in {"insert_from_path", "insert_from_reader", "insert_from_file"}

\* The call of c is an insert that has returned Ok.
InsertedOk(c) == Done(c) /\ IsInsert(op[c]) /\ result[c].kind = "Ok"

\* The step is one of caller c.
Steps(c) == pc'[c] # pc[c]

\* The step is the one at which the get of c returns.
GetReturns(c) ==
    /\ op[c].name = "get"
    /\ pc[c] \in {"get_openat", "get_metadata"}
    /\ pc'[c] = "done"

\* The entries of the objects directory whose file holds the bytes.
EntriesHolding(bytes) ==
    {n \in DOMAIN objects : inodes[objects[n]].data = bytes}

\* The kind of the file at a source path.
KindAt(path) == inodes[paths[path]].kind

\* The source of the insert is a regular file of the caller on the volume's
\* file system, open for reading (the temporary file of insert_from_reader is).
ValidSource(call) ==
    CASE call.name = "insert_from_reader" -> TRUE
      [] call.name = "insert_from_path" ->
             /\ KindAt(call.path) = "reg"
             /\ inodes[paths[call.path]].uid = CallerUid
      [] call.name = "insert_from_file" ->
             /\ inodes[call.given.ino].kind = "reg"
             /\ inodes[call.given.ino].uid = CallerUid
             /\ call.given.readable
      [] OTHER -> FALSE

\* C1: two inserts of the same byte sequence from independent sources (no two
\* Files share a description) that returned Ok returned the same Hash, and the
\* objects directory holds the entry of that Hash and no other entry with
\* these bytes.
C1_SameBytesSameHashOneEntry ==
    \A c1 \in Callers, c2 \in Callers :
        (/\ c1 # c2
         /\ InsertedOk(c1)
         /\ InsertedOk(c2)
         /\ op[c1].bytes = op[c2].bytes)
        => /\ result[c1].hash = result[c2].hash
           /\ FormatHash(result[c1].hash) \in DOMAIN objects
           /\ Cardinality(EntriesHolding(op[c1].bytes)) = 1

\* Two inserts of the same bytes have returned Ok, one from a source file and
\* one from a stream.
C1_Witness ==
    \E c1 \in Callers, c2 \in Callers :
        /\ InsertedOk(c1)
        /\ InsertedOk(c2)
        /\ op[c1].name = "insert_from_path"
        /\ op[c2].name = "insert_from_reader"
        /\ op[c1].bytes = op[c2].bytes
        /\ op[c1].bytes # <<>>

\* C2: when two callers insert identical content from valid sources, in any
\* interleaving of their steps, each call that has returned has returned Ok
\* with the Hash the other computed, and the objects directory holds one entry
\* for it, whose bytes are the content.
C2_ConcurrentInsertsAgree ==
    \A c1 \in Callers, c2 \in Callers :
        (/\ c1 # c2
         /\ Done(c1)
         /\ IsInsert(op[c1]) /\ ValidSource(op[c1])
         /\ IsInsert(op[c2]) /\ ValidSource(op[c2])
         /\ op[c1].bytes = op[c2].bytes
         /\ pc[c2] \in {"chmod", "done"})
        => /\ result[c1].kind = "Ok"
           /\ result[c1].hash = op[c2].hash
           /\ pc[c2] = "done" => result[c2] = result[c1]
           /\ FormatHash(result[c1].hash) \in DOMAIN objects
           /\ inodes[objects[FormatHash(result[c1].hash)]].data = op[c1].bytes
           /\ Cardinality(EntriesHolding(op[c1].bytes)) = 1

\* C3: once insert_from_reader or insert_from_path of the bytes b has returned
\* Ok(h), a get(h) that returns, returns Some with exactly the bytes b and the
\* size Len(b).
C3_InsertThenGet ==
    [][\A c1 \in Callers, c2 \in Callers :
          (/\ c1 # c2
           /\ InsertedOk(c1)
           /\ op[c1].name \in {"insert_from_reader", "insert_from_path"}
           /\ GetReturns(c2)
           /\ op[c2].hash = result[c1].hash)
          => result'[c2] = OkSome(op[c1].bytes, Len(op[c1].bytes))]_vars

\* An insert of the longest bytes has returned Ok(h) and a get(h) has returned
\* these bytes.
C3_Witness ==
    \E c1 \in Callers, c2 \in Callers :
        /\ InsertedOk(c1)
        /\ op[c1].name = "insert_from_reader"
        /\ Len(op[c1].bytes) = MaxLen
        /\ Done(c2)
        /\ op[c2].name = "get"
        /\ op[c2].hash = result[c1].hash
        /\ result[c2] = OkSome(op[c1].bytes, MaxLen)

\* C4: no step of create, open, insert_from_file, insert_from_reader,
\* insert_from_path, get or all, on whatever handle, removes an entry of a
\* directory (of the objects directory of a volume, that is) or makes it name
\* another file; and once a get(h) on a handle of a volume has returned Some,
\* no get(h) on a handle of that volume returns None: it returns Some.
C4_PresentIsTerminal ==
    [][/\ \A d \in DOMAIN inodes :
             inodes[d].kind = "dir"
                 => /\ d \in DOMAIN inodes'
                    /\ inodes'[d].kind = "dir"
                    /\ \A n \in DOMAIN inodes[d].data :
                           /\ n \in DOMAIN inodes'[d].data
                           /\ inodes'[d].data[n] = inodes[d].data[n]
                           /\ inodes[d].data[n] \in DOMAIN inodes'
       /\ \A c1 \in Callers, c2 \in Callers :
             (/\ c1 # c2
              /\ Done(c1)
              /\ op[c1].name = "get"
              /\ result[c1].kind = "Some"
              /\ op[c2].name = "get"
              /\ pc[c2] = "volume_get"
              /\ pc'[c2] = "done"
              /\ op[c2].hash = op[c1].hash
              /\ volumes[c2][op[c2].volume].directory.ino
                     = volumes[c1][op[c1].volume].directory.ino)
             => result'[c2].kind = "Some"]_vars

\* Two gets of the same Hash, each on the caller's own handle of the same
\* volume, have returned Some.
C4_Witness ==
    \E c1 \in Callers, c2 \in Callers :
        /\ c1 # c2
        /\ Done(c1) /\ op[c1].name = "get" /\ result[c1].kind = "Some"
        /\ Done(c2) /\ op[c2].name = "get" /\ result[c2].kind = "Some"
        /\ op[c1].hash = op[c2].hash
        /\ "volume" \in DOMAIN op[c1]
        /\ volumes[c2][op[c2].volume].directory.ino
               = volumes[c1][op[c1].volume].directory.ino

\* C5: in every state, the name of every entry of the objects directory is the
\* hexadecimal form of the digest of the entry's contents.
C5_ContentHashesToName ==
    \A n \in DOMAIN objects :
        n = FormatHash(Sha256(inodes[objects[n]].data))

\* C6: a get(h) that has returned while another caller inserts the content
\* whose digest is h has returned None or Some with the complete content and
\* its length.
C6_GetSeesCompleteObject ==
    \A c1 \in Callers, c2 \in Callers :
        (/\ c1 # c2
         /\ Done(c1)
         /\ op[c1].name = "get"
         /\ IsInsert(op[c2])
         /\ Sha256(op[c2].bytes) = op[c1].hash)
        => \/ result[c1] = OkNone
           \/ result[c1] = OkSome(op[c2].bytes, Len(op[c2].bytes))

\* A get has returned the complete content while the insert has linked the
\* file and has not yet made it read-only.
C6_Witness ==
    \E c1 \in Callers, c2 \in Callers :
        /\ Done(c1)
        /\ op[c1].name = "get"
        /\ op[c2].name = "insert_from_reader"
        /\ pc[c2] = "chmod"
        /\ op[c2].linkat_result = ""
        /\ Len(op[c2].bytes) = MaxLen
        /\ Sha256(op[c2].bytes) = op[c1].hash
        /\ result[c1] = OkSome(op[c2].bytes, MaxLen)

\* The path is a directory, a FIFO, a socket, a character device or a symlink.
BadType(path) == KindAt(path) \in {"dir", "fifo", "sock", "chr", "lnk"}

\* C7: no step of an insert_from_path on a directory, a FIFO, a socket, a
\* character device or a symlink changes the objects directory, and the call
\* returns an error.
C7_BadTypeRejected ==
    [][\A c \in Callers :
          (/\ Running(c)
           /\ op[c].name = "insert_from_path"
           /\ BadType(op[c].path)
           /\ Steps(c))
          => /\ objects' = objects
             /\ pc'[c] = "done" => result'[c].kind = "Err"]_vars

\* An insert_from_path on the symlink that points at a regular file has
\* returned an error, with an object in the volume.
C7_Witness ==
    \E c \in Callers :
        /\ Done(c)
        /\ op[c].name = "insert_from_path"
        /\ op[c].path = "symlink1"
        /\ result[c].kind = "Err"
        /\ DOMAIN objects # {}

\* The File handed to insert_from_file is not a regular file, is not owned by
\* the caller, or is not readable.
PreconditionViolated(call) ==
    /\ call.name = "insert_from_file"
    /\ \/ inodes[call.given.ino].kind # "reg"
       \/ inodes[call.given.ino].uid # CallerUid
       \/ ~call.given.readable

\* C8: no step of an insert_from_file whose File violates a precondition
\* changes the objects directory, and the call returns an error.
C8_PreconditionsLeaveVolume ==
    [][\A c \in Callers :
          (/\ Running(c)
           /\ PreconditionViolated(op[c])
           /\ Steps(c))
          => /\ objects' = objects
             /\ pc'[c] = "done" => result'[c].kind = "Err"]_vars

\* C9: a get of a Hash that has no entry in the objects directory has returned
\* Ok(None).
C9_AbsentIsNone ==
    \A c \in Callers :
        (/\ Done(c)
         /\ op[c].name = "get"
         /\ FormatHash(op[c].hash) \notin DOMAIN objects)
        => result[c] = OkNone

\* A get on the empty volume has returned Ok(None).
C9_Witness ==
    \E c \in Callers :
        /\ Done(c)
        /\ op[c].name = "get"
        /\ objects = EmptyDir
        /\ result[c] = OkNone

\* The entry of the Hash exists and is not a regular file.
NotRegular(hash) ==
    /\ FormatHash(hash) \in DOMAIN objects
    /\ inodes[objects[FormatHash(hash)]].kind # "reg"

\* C10: when the entry of h exists and is not a regular file (a directory, a
\* symbolic link, a FIFO or a device), a get(h) reports an error: it returns,
\* and what it returns is Err, neither Ok(None) nor Ok(Some); and no step of
\* it changes the objects directory or a file.
C10_CorruptionReported ==
    /\ [][\A c \in Callers :
             (/\ Running(c)
              /\ op[c].name = "get"
              /\ NotRegular(op[c].hash)
              /\ Steps(c))
             => /\ objects' = objects
                /\ inodes' = inodes
                /\ pc'[c] = "done" => result'[c].kind = "Err"]_vars
    /\ \A c \in Callers :
           (op[c].name = "get" /\ Running(c) /\ NotRegular(op[c].hash))
           ~> (Done(c) /\ result[c].kind = "Err")

\* The call is at its link step or at its chmod step and the entry of its
\* hash exists without the call having created it.
AlreadyStored(c) ==
    \/ pc[c] = "linkat" /\ insert_path(op[c].hash) \in DOMAIN objects
    \/ pc[c] = "chmod" /\ op[c].linkat_result = "EEXIST"

\* C11: when the entry of the file's hash exists already, the link and chmod
\* steps of the insert leave the objects directory as it is, the entry keeps
\* its inode and that inode its bytes, the given file has no entry (unless it
\* is the stored file itself), and a call with a valid source returns Ok(hash).
C11_ExistingEntryRetained ==
    [][\A c \in Callers :
          (/\ IsInsert(op[c])
           /\ AlreadyStored(c)
           /\ Steps(c))
          => LET name == insert_path(op[c].hash)
                 entry == objects[name]
             IN  /\ objects' = objects
                 /\ entry \in DOMAIN inodes'
                 /\ inodes'[entry].data = inodes[entry].data
                 /\ op[c].file.ino # entry
                       => \A n \in DOMAIN objects' : objects'[n] # op[c].file.ino
                 /\ (pc[c] = "chmod" /\ ValidSource(op[c]))
                       => result'[c] = Ok(op[c].hash)]_vars

\* An insert_from_file of a file whose content is stored under another inode
\* has returned Ok.
C11_Witness ==
    \E c \in Callers :
        /\ InsertedOk(c)
        /\ op[c].name = "insert_from_file"
        /\ op[c].linkat_result = "EEXIST"
        /\ objects[insert_path(result[c].hash)] # op[c].given.ino
        /\ inodes[objects[insert_path(result[c].hash)]].data = op[c].bytes

\* C12: the step at which an insert returns Ok is the chmod step, reached
\* after the link was created or reported AlreadyExists, and it leaves the
\* call's file with the mode 0o400 (a temporary file without a link goes away
\* with its descriptor); no other step changes the mode of a file.
C12_OkMeansReadonly ==
    [][/\ \A c \in Callers :
             (IsInsert(op[c]) /\ Steps(c) /\ result'[c].kind = "Ok")
             => /\ pc[c] = "chmod"
                /\ op[c].linkat_result \in {"", "EEXIST"}
                /\ IF op[c].file.ino \in DOMAIN inodes'
                   THEN inodes'[op[c].file.ino].mode = ReadonlyMode
                   ELSE LinkCount(op[c].file.ino, inodes, paths, objects) = 0
       /\ \A i \in DOMAIN inodes \cap DOMAIN inodes' :
             inodes'[i].mode # inodes[i].mode
             => \E c \in Callers :
                    /\ pc[c] = "chmod"
                    /\ Steps(c)
                    /\ op[c].file.ino = i
                    /\ op[c].linkat_result \in {"", "EEXIST"}]_vars

\* Two inserts from paths have returned Ok, one that created the link and one
\* that found the object stored, and both source files are read-only.
C12_Witness ==
    \E c1 \in Callers, c2 \in Callers :
        /\ InsertedOk(c1) /\ op[c1].name = "insert_from_path"
        /\ InsertedOk(c2) /\ op[c2].name = "insert_from_path"
        /\ op[c1].linkat_result = ""
        /\ op[c2].linkat_result = "EEXIST"
        /\ inodes[paths[op[c1].path]].mode = ReadonlyMode
        /\ inodes[paths[op[c2].path]].mode = ReadonlyMode

\* The text is 64 characters long and each is one of 0-9 and a-f.
WellFormed(s) ==
    /\ Len(s) = 64
    /\ \A i \in 1 .. Len(s) : s[i] \in (48 .. 57) \cup (97 .. 102)

\* C15: a from_str of the text that formatting the Hash h returned has
\* returned Ok(h).
C15_ParseFormatRoundTrip ==
    \A c \in Callers :
        (/\ Done(c)
         /\ op[c].name = "from_str"
         /\ op[c].hash # <<>>)
        => result[c] = Ok(op[c].hash)

\* The round trip of a Hash whose first byte is a9, a letter and a digit, was
\* made after another caller formatted a Hash.
C15_Witness ==
    \E c1 \in Callers, c2 \in Callers :
        /\ Done(c1) /\ op[c1].name = "from_str"
        /\ op[c1].hash = [i \in 1 .. HashLen |-> IF i = 1 THEN 169 ELSE 0]
        /\ op[c1].s = FormatHash(op[c1].hash)
        /\ result[c1] = Ok(op[c1].hash)
        /\ Done(c2) /\ op[c2].name = "fmt"

\* C16: from_str returns Ok exactly for the texts of 64 characters in 0-9 and
\* a-f and Err(InvalidHash) for every other text, and formatting the Hash it
\* returned gives the text back, each byte as two digits, the high one first.
C16_ParseAcceptsCanonicalOnly ==
    \A c \in Callers :
        /\ (Done(c) /\ op[c].name = "from_str")
           => /\ result[c].kind = "Ok" <=> WellFormed(op[c].s)
              /\ ~WellFormed(op[c].s) => result[c] = Err("InvalidHash")
        /\ (Done(c) /\ op[c].name = "fmt" /\ op[c].s # <<>>)
           => /\ result[c] = Text(op[c].s)
              /\ \A i \in 1 .. 32 :
                    /\ hex(op[c].s[2 * i - 1]).digit = op[c].hash[i] \div 16
                    /\ hex(op[c].s[2 * i]).digit = op[c].hash[i] % 16

\* A text in upper case was rejected, and a text with the letters a and f and
\* the digits 0 and 9 was parsed and formatted back.
C16_Witness ==
    \E c1 \in Callers, c2 \in Callers :
        /\ Done(c1) /\ op[c1].name = "from_str"
        /\ op[c1].s = UpperCase(FormatHash(Sha256(<<>>)))
        /\ result[c1] = Err("InvalidHash")
        /\ Done(c2) /\ op[c2].name = "fmt"
        /\ op[c2].s = [FormatHash(Sha256(<<>>)) EXCEPT ![1] = 97]
        /\ result[c2] = Text(op[c2].s)

\* C13: a create whose path exists at its first create_dir returns
\* Err(AlreadyExists), and that step changes no path and no file: nothing is
\* made inside an existing directory.
C13_CreateExistingFails ==
    [][\A c \in Callers :
          (/\ pc[c] = "create_dir"
           /\ Steps(c)
           /\ op[c].path \in DOMAIN paths)
          => /\ pc'[c] = "done"
             /\ result'[c] = Err("EEXIST")
             /\ paths' = paths
             /\ inodes' = inodes]_vars

\* Creates at the path of a regular file and at the path of an empty directory
\* have returned AlreadyExists, and the directory is still empty.
C13_Witness ==
    \E c1 \in Callers, c2 \in Callers :
        /\ Done(c1) /\ op[c1].name = "create" /\ op[c1].path = "regular1"
        /\ result[c1] = Err("EEXIST")
        /\ Done(c2) /\ op[c2].name = "create" /\ op[c2].path = "directory1"
        /\ result[c2] = Err("EEXIST")
        /\ inodes[paths["directory1"]].data = EmptyDir

\* The directory that the Volume handle was opened on.
Opened(volume) == volume.directory.ino

\* The path the handle was opened from no longer names its directory.
PathGone(volume) == lookup_directory(paths, inodes, volume.path).ino # Opened(volume)

\* C14: a step that renames or unlinks a path changes what no get on any
\* handle returns; and every get and insert_from_reader on a handle acts on the
\* directory that was opened: the get returns what that directory's objects
\* hold, the link step of the insert (into a directory that has its objects
\* directory) leaves its object there, and the insert returns its Hash.
C14_HandleSurvivesMove ==
    [][/\ paths' # paths
          => \A c \in Callers : \A v \in 1 .. Len(volumes[c]) : \A h \in Hashes :
                 get(inodes', directory(volumes'[c][v], paths', inodes'), h)
                     = get(inodes, directory(volumes[c][v], paths, inodes), h)
       /\ \A c \in Callers :
             (pc[c] = "volume_get" /\ Steps(c))
             => result'[c] = get(inodes, Opened(volumes[c][op[c].volume]), op[c].hash)
       /\ \A c \in Callers :
             (/\ pc[c] = "linkat"
              /\ Steps(c)
              /\ objects_of(inodes, Opened(volumes[c][op[c].volume])) # 0)
             => /\ op[c].hash = Sha256(op[c].bytes)
                /\ pc'[c] = "chmod"
                /\ get(inodes', Opened(volumes[c][op[c].volume]), op[c].hash)
                       = OkSome(op[c].bytes, Len(op[c].bytes))
       /\ \A c \in Callers :
             (pc[c] = "chmod" /\ Steps(c)) => result'[c] = Ok(Sha256(op[c].bytes))]_vars

\* A get is about to run on a handle whose path has been renamed or unlinked,
\* for an object that was inserted into the directory.
C14_Witness ==
    \E c \in Callers :
        /\ pc[c] = "volume_get"
        /\ PathGone(volumes[c][op[c].volume])
        /\ volumes[c][op[c].volume].path \notin DOMAIN paths
        /\ get(inodes, Opened(volumes[c][op[c].volume]), op[c].hash).kind = "Some"

\* The volume that the list of a union call names at position i.
Listed(c, i) == volumes[c][op[c].volumes[i]]

\* What the volume at position i of the list holds for the call's hash.
Held(c, i) == get(inodes, Opened(Listed(c, i)), op[c].hash)

\* The step is a pull of the iterator of caller c's call: it returns, or it
\* leaves the caller in the call with the call's record changed.
Pulls(c, at) == pc[c] = at /\ (pc'[c] # pc[c] \/ op'[c] # op[c])

\* The step is a pull of the union_get of caller c.
UnionGetPulls(c) == Pulls(c, "union_get")

\* C17: union_get asks the volumes in the order of the list, each only after
\* all before it reported the object absent; it returns the object of the
\* first volume that holds it, at once, and Ok(None) only after every volume
\* of the list reported it absent.
C17_UnionGetFirstHit ==
    [][\A c \in Callers :
          UnionGetPulls(c)
          => LET i == Len(op[c].reports) + 1
             IN  /\ \A j \in 1 .. Len(op[c].reports) : op[c].reports[j] = OkNone
                 /\ (i <= Len(op[c].volumes) /\ Held(c, i).kind = "Some")
                       => pc'[c] = "done" /\ result'[c] = Held(c, i)
                 /\ (i <= Len(op[c].volumes) /\ Held(c, i) = OkNone)
                       => /\ pc'[c] = "union_get"
                          /\ op'[c].reports = Append(op[c].reports, OkNone)
                 /\ i > Len(op[c].volumes)
                       => pc'[c] = "done" /\ result'[c] = OkNone
                 /\ (pc'[c] = "done" /\ result'[c] = OkNone)
                       => i > Len(op[c].volumes)]_vars

\* union_get has returned the object of the first volume of a list of two
\* after one get, while the second volume holds the object too.
C17_Witness ==
    \E c \in Callers :
        /\ Done(c)
        /\ op[c].name = "union_get"
        /\ Len(op[c].volumes) = 2
        /\ Len(op[c].reports) = 1
        /\ result[c] = Held(c, 1)
        /\ result[c].kind = "Some"
        /\ result[c].data # <<>>
        /\ Held(c, 2).kind = "Some"

\* C18: when the get of a volume returns an error, the volumes before it
\* having reported the object absent, union_get returns that error at that
\* step, and a union_get that has returned asks no further volume.
C18_UnionGetErrorStops ==
    [][\A c \in Callers :
          /\ (/\ UnionGetPulls(c)
              /\ Len(op[c].reports) < Len(op[c].volumes)
              /\ Held(c, Len(op[c].reports) + 1).kind = "Err")
             => /\ pc'[c] = "done"
                /\ result'[c] = Held(c, Len(op[c].reports) + 1)
                /\ Len(op'[c].reports) = Len(op[c].reports) + 1
          /\ (Done(c) /\ op[c].name = "union_get" /\ pc'[c] = "done")
             => op'[c] = op[c]]_vars

\* union_get has returned the error of the first volume of a list of two after
\* one get, while the second volume holds the object.
C18_Witness ==
    \E c \in Callers :
        /\ Done(c)
        /\ op[c].name = "union_get"
        /\ Len(op[c].volumes) = 2
        /\ Len(op[c].reports) = 1
        /\ result[c].kind = "Err"
        /\ Held(c, 2).kind = "Some"

\* The names of the objects among the names a directory stream was opened
\* with.
ObjectNames(names) == {n \in names : WellFormed(n)}

\* The positions of the items that the volume at position i of the list
\* yielded.
ItemsOf(call, i) == {j \in 1 .. Len(call.yielded) : call.yielded[j].volume = i}

\* The iterator of the call is through with the volume at position i.
ThroughWith(call, at, i) == i < call.index \/ (i = call.index /\ at = "done")

\* C19: the items union_all yields come in the order of the list of volumes;
\* once the iterator is through with a volume, the Hashes it yielded for it
\* are the Hashes of that volume's objects; and when the iterator ends it has
\* been through every volume and the number of items is the sum of the
\* volumes' numbers of objects, a Hash held by two volumes counting twice.
C19_UnionAllConcatenates ==
    [][\A c \in Callers :
          Pulls(c, "union_all")
          => LET call == op'[c]
             IN  /\ \A j \in 1 .. Len(call.yielded) : \A k \in j .. Len(call.yielded) :
                        call.yielded[j].volume <= call.yielded[k].volume
                 /\ \A i \in 1 .. call.index :
                        ThroughWith(call, pc'[c], i)
                        => {FormatHash(call.yielded[j].item.hash) : j \in ItemsOf(call, i)}
                               = ObjectNames(call.snapshots[i])
                 /\ pc'[c] = "done"
                        => /\ call.index = Len(call.volumes)
                           /\ result'[c] = Items(call.yielded)
                           /\ Len(call.yielded)
                                  = Cardinality(UNION {{<<i, n>> : n \in ObjectNames(call.snapshots[i])} :
                                                          i \in 1 .. call.index})]_vars

\* union_all over two volumes that hold the same object has yielded its Hash
\* twice, for the first volume and then for the second.
C19_Witness ==
    \E c \in Callers :
        /\ Done(c)
        /\ op[c].name = "union_all"
        /\ Len(op[c].volumes) = 2
        /\ Len(result[c].data) = 2
        /\ result[c].data[1].volume = 1
        /\ result[c].data[2].volume = 2
        /\ result[c].data[1].item = result[c].data[2].item

\* C20: the stream all() reads holds the entries of the volume's objects
\* directory, with . and ..; every item it yields is Ok(hash) for an entry
\* whose name is the text of the hash, no entry is yielded twice, and once the
\* iterator is through with the volume every entry whose name is the text of a
\* Hash was yielded; the other entries give no item.
C20_AllYieldsParsedNames ==
    [][\A c \in Callers :
          Pulls(c, "union_all")
          => LET call == op'[c]
             IN  /\ call.index > op[c].index
                    => call.snapshots[call.index]
                           = DotNames
                               \cup DOMAIN inodes[objects_of(inodes,
                                                             Opened(Listed(c, call.index)))].data
                 /\ \A j \in 1 .. Len(call.yielded) :
                        /\ call.yielded[j].item.kind = "Ok"
                        /\ FormatHash(call.yielded[j].item.hash)
                               \in ObjectNames(call.snapshots[call.yielded[j].volume])
                        /\ \A k \in 1 .. Len(call.yielded) :
                               (/\ k # j
                                /\ call.yielded[k].volume = call.yielded[j].volume)
                               => call.yielded[k].item # call.yielded[j].item
                 /\ \A i \in 1 .. call.index :
                        ThroughWith(call, pc'[c], i)
                        => Cardinality(ItemsOf(call, i))
                               = Cardinality(ObjectNames(call.snapshots[i]))]_vars

\* all() has gone through a directory that holds two objects and a file whose
\* name is the text of a Hash in upper case, and has yielded two items.
C20_Witness ==
    \E c \in Callers :
        /\ Done(c)
        /\ op[c].name = "union_all"
        /\ op[c].volumes = <<1>>
        /\ UpperCase(ObjectName(Sha256(<<104>>))) \in op[c].snapshots[1]
        /\ Cardinality(op[c].snapshots[1]) = 5
        /\ Len(result[c].data) = 2

\* The call of c is an insert_from_path that has passed its open and its fcntl
\* and is inside insert_from_file.
InFileOfPath(c) ==
    /\ op[c].name = "insert_from_path"
    /\ pc[c] \in {"metadata", "seek", "hash", "linkat", "chmod"}

\* C22: once insert_from_path has opened the file and restored the blocking
\* mode, that is from the start of insert_from_file on, the O_NONBLOCK flag of
\* the open file is clear.
C22_NonblockCleared ==
    \A c \in Callers : InFileOfPath(c) => ~op[c].file.nonblock

\* C30: when the link of insert_from_file fails with an error other than
\* AlreadyExists, the call returns that error at that step, after the one
\* attempt; no inode changes (the caller's file keeps its permissions) and the
\* objects directory stays as it was.
C30_LinkErrorPropagates ==
    [][\A c \in Callers :
          (/\ pc[c] = "linkat"
           /\ Steps(c)
           /\ op'[c].linkat_result \notin {"", "EEXIST"})
          => /\ pc'[c] = "done"
             /\ result'[c] = Err(op'[c].linkat_result)
             /\ \E protected \in BOOLEAN :
                    op'[c].linkat_result
                        = linkat([NewDir EXCEPT !.data = objects], inodes, op[c].file,
                                 insert_path(op[c].hash), protected)
             /\ objects' = objects
             /\ \A n \in DOMAIN inodes' : inodes'[n] = inodes[n]]_vars

\* An insert_from_file of a file of another user has failed with EPERM at the
\* link, the object is not stored and the file has the mode it had.
C30_Witness ==
    \E c \in Callers :
        /\ Done(c)
        /\ op[c].name = "insert_from_file"
        /\ op[c].linkat_result = "EPERM"
        /\ result[c] = Err("EPERM")
        /\ ObjectName(op[c].hash) \notin DOMAIN objects
        /\ inodes[op[c].given.ino].mode = DefaultMode

\* C29: the Hash insert_from_file returns is the digest of the whole file,
\* whatever the offset of the File was when it was handed over, and the object
\* stored under that Hash holds the whole file.
C29_OffsetIrrelevant ==
    \A c \in Callers :
        (Done(c) /\ op[c].name = "insert_from_file" /\ result[c].kind = "Ok")
        => /\ result[c].hash = Sha256(inodes[op[c].given.ino].data)
           /\ ObjectName(result[c].hash) \in DOMAIN objects
           /\ Sha256(inodes[objects[ObjectName(result[c].hash)]].data) = result[c].hash
           /\ \A d \in Callers :
                  (/\ Done(d)
                   /\ op[d].name = "insert_from_file"
                   /\ result[d].kind = "Ok"
                   /\ op[d].given.ino = op[c].given.ino)
                  => result[d] = result[c]

\* The call of c is a retry: an insert of the bytes of the caller's previous,
\* failed insert.
IsRetry(c) == IsInsert(op[c]) /\ "retry" \in DOMAIN op[c]

\* C26: at every step of an insert that retries a failed insert of the same
\* bytes, the entries of the objects directory stay and keep their files and
\* the files their bytes, no second entry with these bytes appears, and a
\* retry that returns Ok returns the digest of the bytes.
C26_RetrySafe ==
    [][\A c \in Callers :
          (IsRetry(c) /\ Running(c) /\ (pc'[c] # pc[c] \/ op'[c] # op[c]))
          => /\ \A n \in DOMAIN objects :
                    /\ n \in DOMAIN objects'
                    /\ objects'[n] = objects[n]
                    /\ inodes'[objects[n]].data = inodes[objects[n]].data
             /\ \A n \in DOMAIN objects' :
                    n \notin DOMAIN objects
                    => /\ n = ObjectName(Sha256(op[c].bytes))
                       /\ inodes'[objects'[n]].data = op[c].bytes
                       /\ \A m \in DOMAIN objects :
                              inodes[objects[m]].data # op[c].bytes
             /\ (pc'[c] = "done" /\ result'[c].kind = "Ok")
                    => /\ result'[c] = Ok(Sha256(op[c].bytes))
                       /\ ObjectName(Sha256(op[c].bytes)) \in DOMAIN objects']_vars

\* After an insert_from_file that failed, a retry of the same bytes through
\* insert_from_reader has returned Ok, and one entry holds the bytes.
C26_Witness ==
    \E c \in Callers :
        /\ Done(c)
        /\ IsRetry(c)
        /\ op[c].name = "insert_from_reader"
        /\ op[c].bytes = <<104>>
        /\ result[c] = Ok(Sha256(<<104>>))
        /\ Cardinality(EntriesHolding(<<104>>)) = 1

\* C23: an insert_from_path on a FIFO that has no writer returns an error:
\* the open returns without a writer, and the file is found not to be regular.
C23_FifoInsertReturns ==
    \A c \in Callers :
        (op[c].name = "insert_from_path" /\ Running(c) /\ KindAt(op[c].path) = "fifo")
        ~> (/\ Done(c)
            /\ op[c].name = "insert_from_path"
            /\ KindAt(op[c].path) = "fifo"
            /\ result[c] = Err("EISDIR"))

\* The open of the FIFO has returned a File and the call is at the check that
\* the file is regular.
C23_Witness ==
    \E c \in Callers :
        /\ op[c].name = "insert_from_path"
        /\ pc[c] = "metadata"
        /\ inodes[op[c].file.ino].kind = "fifo"
        /\ op[c].file.nonblock

\* C24: every get returns: whatever sits at the name of the object and
\* whatever the other callers do, a get that runs is eventually done, with
\* Ok(Some), Ok(None) or Err.
C24_GetReturns ==
    \A c \in Callers :
        (op[c].name = "get" /\ Running(c))
        ~> (Done(c) /\ result[c].kind \in {"Some", "None", "Err"})

\* C28: the link step of an insert_from_path whose file belongs to the caller
\* and whose object is not yet stored creates the entry of the Hash for the
\* file that was opened and hashed, whatever has become of the path it was
\* opened from, and the bytes of that file hash to the Hash.
C28_LinksOpenFile ==
    [][\A c \in Callers :
          (/\ pc[c] = "linkat"
           /\ Steps(c)
           /\ op[c].name = "insert_from_path"
           /\ inodes[op[c].file.ino].uid = CallerUid
           /\ insert_path(op[c].hash) \notin DOMAIN objects)
          => /\ insert_path(op[c].hash) \in DOMAIN objects'
             /\ objects'[insert_path(op[c].hash)] = op[c].file.ino
             /\ Sha256(inodes'[op[c].file.ino].data) = op[c].hash]_vars

\* C25: no operation leaks an OS handle: when a call has returned, Ok or Err,
\* every descriptor it opened or was given is closed, or owned by the value it
\* returned (the Dir of a successful fdopendir); in particular a failing
\* fdopendir has closed the descriptor it was given.
C25_NoHandleLeak ==
    \A c \in Callers :
        (pc[c] = "done" /\ op[c].file # NoFile) => result[c].kind = "Dir"

\* A parse of a path has returned.
Parsed(c) == pc[c] = "done" /\ op[c].name = "parse"

\* C27: parsing a path ignores the empty components: no component gives Root,
\* "objects" alone Objects, "objects" and one component that parses as a Hash
\* ObjectsObject(hash), and everything else InvalidPath (another first
\* component, a hash that is invalid, in upper case or of 65 characters, more
\* than one component after "objects"); two paths with the same non-empty
\* components, however many solidi are written, give the same result.
C27_ParsedPath ==
    \A c \in Callers :
        Parsed(c) =>
            LET parts == op[c].parts
            IN  /\ result[c].kind =
                       CASE parts = <<>> -> "Root"
                         [] parts = <<ObjectsComponent>> -> "Objects"
                         [] /\ Len(parts) = 2
                            /\ parts[1] = ObjectsComponent
                            /\ Len(parts[2]) = HashTextLen
                            /\ \A i \in 1 .. HashTextLen :
                                   parts[2][i] \in (48 .. 57) \cup (97 .. 102) ->
                                "ObjectsObject"
                         [] OTHER -> "Err"
                /\ result[c].kind = "ObjectsObject"
                       => FormatHash(result[c].hash) = parts[2]
                /\ result[c].kind = "Err" => result[c].err = "InvalidPath"
                /\ \A d \in Callers :
                       (Parsed(d) /\ op[d].parts = parts) => result[d] = result[c]

\* An object's path written with doubled solidi and a trailing one was parsed
\* to the object, and the same path in upper case was refused.
C27_Witness ==
    \E c, d \in Callers :
        /\ Parsed(c) /\ Parsed(d)
        /\ result[c].kind = "ObjectsObject"
        /\ Len(op[c].s) = Len(ObjectsComponent) + HashTextLen + 4
        /\ result[d] = Err("InvalidPath")
        /\ op[d].parts = <<ObjectsComponent, UpperCase(op[c].parts[2])>>

\* C21: when the iteration of a directory fails during all(), the sequence
\* yields one Err item for the failure and then ends: the volume gives no item
\* after it and no second Err; the items it gave before are the Hashes of
\* entries of the directory, and they stay in the sequence.
C21_ErrorEndsAll ==
    [][\A c \in Callers :
          Pulls(c, "union_all")
          => LET call == op'[c]
                 n == Len(call.yielded)
             IN  /\ SubSeq(call.yielded, 1, Len(op[c].yielded)) = op[c].yielded
                 /\ \A j \in 1 .. n :
                        call.yielded[j].item.kind = "Err"
                        => \A k \in 1 .. n :
                               (k # j /\ call.yielded[k].volume = call.yielded[j].volume)
                               => /\ k < j
                                  /\ call.yielded[k].item.kind = "Ok"
                                  /\ FormatHash(call.yielded[k].item.hash)
                                         \in call.snapshots[call.yielded[k].volume]]_vars

\* union_all over two volumes is done: the first volume held two objects, gave
\* one Hash and then the error of a failed read, and nothing more, and the
\* iterator went on to the second volume.
C21_Witness ==
    \E c \in Callers :
        /\ Done(c)
        /\ op[c].name = "union_all"
        /\ Len(op[c].volumes) = 2
        /\ op[c].index = 2
        /\ Cardinality(ObjectNames(op[c].snapshots[1])) = 2
        /\ Len(result[c].data) = 2
        /\ result[c].data[1].volume = 1 /\ result[c].data[1].item.kind = "Ok"
        /\ result[c].data[2] = [volume |-> 1, item |-> Err("EIO")]

\* C33: a step of insert_from_reader adds no entry to the directories but
\* objects/<hex(hash)>, the hash being that of the reader's bytes; while the
\* call runs its temporary file has no name, and when the call has returned,
\* with Ok or with Err, the temporary file is that entry or is gone.
C33_ReaderLeavesNoResidue ==
    [][\A c \in Callers :
          (op[c].name = "insert_from_reader" /\ (pc'[c] # pc[c] \/ op'[c] # op[c]))
          => LET name == ObjectName(Sha256(op[c].bytes))
                 tmp == op[c].file.ino
             IN  /\ paths' = paths
                 /\ DOMAIN objects' \ DOMAIN objects \subseteq {name}
                 /\ pc'[c] \in {"copy", "metadata", "seek", "hash", "linkat"}
                        => LinkCount(op'[c].file.ino, inodes', paths', objects') = 0
                 /\ pc'[c] = "done"
                        => \/ tmp \notin DOMAIN inodes'
                           \/ /\ name \in DOMAIN objects'
                              /\ objects'[name] = tmp
                              /\ LinkCount(tmp, inodes', paths', objects') = 1]_vars

\* A reader failed after its first byte was written, the call returned the
\* error; an insert of the other caller returned Ok for an object that already
\* existed.
C33_Witness ==
    \E c, d \in Callers :
        /\ Done(c) /\ op[c].name = "insert_from_reader"
        /\ result[c] = Err("EIO")
        /\ Len(op[c].bytes) = 2
        /\ Done(d) /\ op[d].name = "insert_from_reader"
        /\ result[d].kind = "Ok"
        /\ op[d].linkat_result = "EEXIST"

\* C34: every entry of objects/ that an insert created refers to a regular
\* file, whatever other processes do to the paths of the source files (rename,
\* replace, remove, put a device in their place) while the insert runs.
C34_ObjectsAreRegular ==
    \A name \in DOMAIN objects : inodes[objects[name]].kind = "reg"

\* An insert by path opened regular1 and linked it although a device node has
\* taken its path since.
C34_Witness ==
    \E c \in Callers :
        /\ Done(c) /\ op[c].name = "insert_from_path" /\ op[c].path = "regular1"
        /\ result[c].kind = "Ok"
        /\ insert_path(result[c].hash) \in DOMAIN objects
        /\ "regular1" \in DOMAIN paths
        /\ inodes[paths["regular1"]].kind = "chr"

\* The directory of handle v of caller c has no entry named objects.
NoObjects(c, v) == "objects" \notin DOMAIN inodes[Opened(volumes[c][v])].data

\* C35: open succeeds on every path that names a directory, also one without
\* an objects directory; on a handle of such a directory every get returns
\* Ok(None), and the link step of insert_from_reader fails: the call returns
\* the error, its temporary file is gone and every directory and every other
\* file is as it was.
C35_OpenWithoutObjects ==
    [][\A c \in Callers :
          /\ (/\ pc[c] = "open_directory" /\ Steps(c)
              /\ op[c].path \in DOMAIN paths
              /\ inodes[paths[op[c].path]].kind = "dir")
             => /\ result'[c].kind = "Ok"
                /\ Len(volumes'[c]) = Len(volumes[c]) + 1
                /\ Opened(volumes'[c][Len(volumes'[c])]) = paths[op[c].path]
          /\ (pc[c] = "volume_get" /\ Steps(c) /\ NoObjects(c, op[c].volume))
             => result'[c] = OkNone
          /\ (pc[c] = "linkat" /\ Steps(c) /\ NoObjects(c, op[c].volume))
             => /\ result'[c].kind = "Err"
                /\ inodes' = [n \in DOMAIN inodes \ {op[c].file.ino} |-> inodes[n]]
                /\ paths' = paths]_vars

\* A create has made its directory and not yet the objects directory; on a
\* handle opened on that directory an insert has returned an error.
C35_Witness ==
    \E c, d \in Callers :
        /\ pc[d] = "create_dir_objects" /\ op[d].path = "volume3"
        /\ Done(c) /\ op[c].name = "insert_from_reader"
        /\ volumes[c][op[c].volume].path = "volume3"
        /\ NoObjects(c, op[c].volume)
        /\ result[c] = Err("ENOENT")

\* C36: union_get stops at the first volume that holds the object: the pull
\* that finds it returns it, having made as many gets as that volume's
\* position, whatever the volumes after it hold, an entry whose get fails
\* included; and a union_get that has returned makes no further get.
C36_UnionGetStopsAtHit ==
    [][\A c \in Callers :
          /\ (/\ UnionGetPulls(c)
              /\ Len(op[c].reports) < Len(op[c].volumes)
              /\ Held(c, Len(op[c].reports) + 1).kind = "Some")
             => /\ pc'[c] = "done"
                /\ result'[c].kind = "Some"
                /\ LET objs == objects_of(inodes,
                                          Opened(Listed(c, Len(op[c].reports) + 1)))
                       entry == inodes[objs].data[ObjectName(op[c].hash)]
                   IN  result'[c].data = inodes[entry].data
                /\ Len(op'[c].reports) = Len(op[c].reports) + 1
          /\ (/\ Done(c) /\ op[c].name = "union_get" /\ result[c].kind = "Some"
              /\ pc'[c] = "done")
             => op'[c].reports = op[c].reports /\ result'[c] = result[c]]_vars

\* union_get has returned the object of the first volume of its list after one
\* get, while the get of the second volume would return an error.
C36_Witness ==
    \E c \in Callers :
        /\ Done(c)
        /\ op[c].name = "union_get"
        /\ Len(op[c].volumes) = 2
        /\ Len(op[c].reports) = 1
        /\ result[c].kind = "Some"
        /\ Held(c, 2).kind = "Err"

\* C38: when an insert_from_reader that created the entry of its object
\* returns Ok, the file of the object has one directory entry,
\* objects/<hex(hash)>, the permission bits 0o400, which give nobody the right
\* to write, and the call holds no descriptor any more.
C38_StoredObjectUnwritable ==
    [][\A c \in Callers :
          (/\ op[c].name = "insert_from_reader"
           /\ pc[c] = "chmod" /\ Steps(c)
           /\ op[c].linkat_result = ""
           /\ result'[c].kind = "Ok")
          => LET tmp == op[c].file.ino
                 name == ObjectName(result'[c].hash)
             IN  /\ name \in DOMAIN objects' /\ objects'[name] = tmp
                 /\ LinkCount(tmp, inodes', paths', objects') = 1
                 /\ inodes'[tmp].mode = ReadonlyMode
                 /\ ~MayWrite(inodes'[tmp])
                 /\ op'[c].file = NoFile]_vars

\* An insert_from_reader of two bytes has created the entry of its object and
\* returned Ok.
C38_Witness ==
    \E c \in Callers :
        /\ Done(c) /\ op[c].name = "insert_from_reader"
        /\ op[c].linkat_result = ""
        /\ result[c] = Ok(Sha256(<<104, 104>>))
        /\ inodes[objects[ObjectName(result[c].hash)]].mode = ReadonlyMode

\* C39: iter_result_iter(Ok(iter)) yields Ok(item) for every item of iter, in
\* order, and then ends; iter_result_iter(Err(e)) yields Err(e) once and then
\* ends: what was collected so far is a prefix of that sequence, the whole of
\* it when the collection has ended, and an iterator that has ended yields
\* nothing more.
C39_IterResultIter ==
    \A c \in Callers :
        op[c].name = "iter_result_iter"
        => LET r == op[c].result
               expected == IF r.kind = "Ok"
                           THEN [j \in 1 .. Len(r.value) |->
                                    [kind |-> "Ok", value |-> r.value[j]]]
                           ELSE <<[kind |-> "Err", value |-> r.value]>>
               got == op[c].yielded
           IN  /\ Len(got) <= Len(expected)
               /\ got = SubSeq(expected, 1, Len(got))
               /\ Done(c)
                     => /\ got = expected
                        /\ result[c] = Items(expected)
                        /\ IterResultIter_next(op[c].inner).item.kind = "None"

\* One collection gave Ok(1), Ok(2), Ok(3) for the iterator over 1, 2, 3 and
\* another gave Err(1) for Err(1), as in test_iter_result_iter.
C39_Witness ==
    \E c, d \in Callers :
        /\ Done(c) /\ op[c].name = "iter_result_iter"
        /\ op[c].result = [kind |-> "Ok", value |-> <<1, 2, 3>>]
        /\ Len(result[c].data) = 3
        /\ Done(d) /\ op[d].name = "iter_result_iter"
        /\ op[d].result = [kind |-> "Err", value |-> 1]
        /\ result[d].data = <<[kind |-> "Err", value |-> 1]>>

\* The positions of the errors among the items of a call.
ErrorsOf(call) == {j \in 1 .. Len(call.yielded) : call.yielded[j].item.kind = "Err"}

\* C32: in union_all the error of a volume's enumeration comes at that
\* volume's position: the items before it belong to that volume or to volumes
\* before it, the items after it to volumes after it, and every Hash of every
\* volume before it (of those that did not fail themselves) was yielded as Ok
\* before the error.
C32_ErrorInLine ==
    [][\A c \in Callers :
          Pulls(c, "union_all")
          => LET call == op'[c]
             IN  \A j \in ErrorsOf(call) :
                     LET v == call.yielded[j].volume
                     IN  /\ j > Len(op[c].yielded) => v = call.index
                         /\ \A k \in 1 .. Len(call.yielded) :
                                /\ k < j => call.yielded[k].volume <= v
                                /\ k > j => call.yielded[k].volume > v
                         /\ \A i \in 1 .. v - 1 :
                                (\A e \in ErrorsOf(call) : call.yielded[e].volume # i)
                                => ObjectNames(call.snapshots[i])
                                       = {FormatHash(call.yielded[k].item.hash) :
                                             k \in {m \in ItemsOf(call, i) : m < j}}]_vars

\* union_all over two volumes is done: the Hash of the first volume's object
\* came first, then the error of the second volume.
C32_Witness ==
    \E c \in Callers :
        /\ Done(c)
        /\ op[c].name = "union_all"
        /\ Len(op[c].volumes) = 2
        /\ Len(result[c].data) = 2
        /\ result[c].data[1].volume = 1 /\ result[c].data[1].item.kind = "Ok"
        /\ result[c].data[2].volume = 2 /\ result[c].data[2].item.kind = "Err"

\* C37: union_all does not stop at a volume whose enumeration cannot be
\* started: such a volume gives its Err and nothing else, the iterator goes on
\* to the next volume, and once it is through with a volume after the failing
\* one it has yielded every Hash of that volume; it ends only after the last
\* volume of the list.
C37_UnionAllGoesOn ==
    [][\A c \in Callers :
          Pulls(c, "union_all")
          => LET call == op'[c]
             IN  /\ \A v \in 1 .. call.index :
                        all(inodes, Opened(Listed(c, v))).err # "" /\ v > op[c].index
                        => /\ Cardinality(ItemsOf(call, v)) = 1
                           /\ \E j \in ItemsOf(call, v) :
                                  call.yielded[j].item.kind = "Err"
                           /\ pc'[c] = "union_all"
                 /\ \A j \in ErrorsOf(call) : \A i \in 1 .. call.index :
                        (/\ call.yielded[j].volume < i
                         /\ call.snapshots[call.yielded[j].volume] = {}
                         /\ ThroughWith(call, pc'[c], i)
                         /\ \A e \in ErrorsOf(call) : call.yielded[e].volume # i)
                        => ObjectNames(call.snapshots[i])
                               = {FormatHash(call.yielded[k].item.hash) :
                                     k \in {m \in ItemsOf(call, i) : m > j}}
                 /\ pc'[c] = "done" => call.index = Len(call.volumes)]_vars

\* union_all over two volumes is done: the first volume had no objects
\* directory and gave one error, and the Hash of the second volume's object
\* came after it.
C37_Witness ==
    \E c \in Callers :
        /\ Done(c)
        /\ op[c].name = "union_all"
        /\ Len(op[c].volumes) = 2
        /\ op[c].snapshots[1] = {}
        /\ Len(result[c].data) = 2
        /\ result[c].data[1] = [volume |-> 1, item |-> Err("ENOENT")]
        /\ result[c].data[2].volume = 2 /\ result[c].data[2].item.kind = "Ok"

\* C31: a call of readdir returns Err exactly when the read failed, and then
\* the error of the read; otherwise Ok(None) exactly when the stream is
\* exhausted, whatever errno held before the call, and Ok(Some(entry)) for an
\* entry the stream had yet to return, which it then returns no more.
C31_ReaddirEndOrError ==
    [][\A c \in Callers :
          Pulls(c, "readdir")
          => LET failed == op'[c].fault # ""
                 ended == op[c].stream = {}
                 returned == IF pc'[c] = "done" THEN result'[c]
                             ELSE OkSome(op'[c].yielded[Len(op'[c].yielded)], 0)
             IN  /\ returned.kind = "Err" <=> failed
                 /\ failed => returned = Err(op'[c].fault)
                 /\ returned = OkNone <=> (ended /\ ~failed)
                 /\ returned.kind = "Some"
                       => /\ Len(op'[c].yielded) = Len(op[c].yielded) + 1
                          /\ returned.data \in op[c].stream
                          /\ op'[c].stream = op[c].stream \ {returned.data}
                 /\ returned.kind # "Some" => op'[c].yielded = op[c].yielded]_vars

\* With a stale errno a directory of . and .. and two files was read to its
\* end: four entries, then Ok(None); another read failed after an entry.
C31_Witness ==
    \E c, d \in Callers :
        /\ Done(c) /\ op[c].name = "readdir"
        /\ op[c].stale = "ENOENT" /\ op[c].fault = ""
        /\ Len(op[c].yielded) = 4
        /\ result[c] = OkNone
        /\ Done(d) /\ op[d].name = "readdir"
        /\ Len(op[d].yielded) = 1
        /\ result[d] = Err("EIO")

====
